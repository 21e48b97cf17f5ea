---------------------------- MODULE Portal_proofs ----------------------------
(***************************************************************************)
(* Proofs about the service desk and the portal, for any number of         *)
(* requests that overlap in any way, and any rows stored before.           *)
(***************************************************************************)
EXTENDS Portal, SequenceTheorems, WellFoundedInduction, TLAPS

\* What a request is about, and what it asks for, fit its operation.
Fits(op, on, ask) ==
  \/ op = "create_task" /\ on \in Tasks /\ ask \in Users \cup {None}
  \/ op = "set_task_status" /\ on \in Tasks
  \/ op = "mark_notification_read" /\ on \in Notices
  \/ op \in {"create_queue", "create_category", "create_tag"} /\ on \in Lookups /\ ask \in Names
  \/ op \in {"update_queue", "update_category"} /\ ask \in LookupPatches
     /\ on \in LookupsOf("queue") \cup LookupsOf("category")
  \/ op \in {"add_tag", "remove_tag"} /\ on \in Pairs
  \/ op = "create_organization" /\ on \in Organizations
  \/ op = "update_organization" /\ on \in Organizations /\ ask \in OrganizationPatches
  \/ op = "create_client" /\ on \in Clients /\ ask \in Organizations \cup {None}
  \/ op = "update_client" /\ on \in Clients /\ ask \in ClientPatches
  \/ op \in {"add_contact", "delete_contact"} /\ on \in Contacts
  \/ op = "link_client_user" /\ on = LinkTable /\ ask \in [client : Clients, user : Users \cup {None}]
  \/ op \in {"portal_create_ticket", "portal_add_message"} /\ on \in Tickets
     /\ ask \in LinksOf(Clients)
  \/ op = "create_conversation" /\ on \in Tickets /\ ask \in Channels
  \/ op = "create_message" /\ on \in Tickets

Looked(r) == req[r].at = "looked"

\* A request that was not overtaken holds the row as it is.
Copies ==
  \A r \in Requests : Looked(r) /\ ~req[r].late => req[r].saw = row[req[r].on]

\* A task or a ticket that is being created is nobody else's.
Creations == {"create_task", "portal_create_ticket"}

Reserved ==
  \A r \in Requests : Looked(r) /\ req[r].op \in Creations =>
    /\ row[req[r].on] = Absent
    /\ \A s \in Requests \ {r} : Looked(s) => req[s].on # req[r].on

\* A request has its fields.
Record(q) == DOMAIN q = {"at", "op", "on", "ask", "saw", "late"}

Inv ==
  /\ DOMAIN row = DeskRows \cup PortalRows
  /\ DOMAIN req = Requests
  /\ \A r \in Requests : Record(req[r])
  /\ \A r \in Requests : Looked(r) => Fits(req[r].op, req[r].on, req[r].ask)
  /\ Copies
  /\ Reserved

-----------------------------------------------------------------------------
\* The kinds of steps.

\* A look at o, with what Fits and Reserved rely on.
Asks(r) ==
  \E op, on, ask :
    /\ Look(r, op, on, ask)
    /\ Fits(op, on, ask)
    /\ op \in Creations => Fresh(on)
    /\ on \in Tasks \cup Tickets /\ op \notin Creations => row[on] # Absent

\* A request that ends and writes nothing.
Ends(r) ==
  /\ Looked(r)
  /\ row' = row
  /\ \/ req' = [req EXCEPT ![r] = Settled("refused")]
     \/ /\ req' = [req EXCEPT ![r] = Settled("failed")]
        /\ MayFail(req[r])

\* A request that commits.
Commits(r) ==
  /\ Looked(r)
  /\ \E next :
       /\ Commit(r, next)
       /\ DOMAIN next = DOMAIN row
       /\ \A t \in Tasks \cup Tickets : next[t] # row[t] => t = req[r].on

LEMMA AskIsLook ==
  ASSUME Inv, NEW r \in Requests, DeskAsk(r) \/ PortalAsk(r)
  PROVE  Asks(r)
<1> USE DEF Asks, Fits, Creations
<1> USE DeskConstants, PortalConstants DEF LookupsOf, DeskRows, PortalRows
<1>1. CASE AskCreateTask(r) BY <1>1 DEF AskCreateTask
<1>2. CASE AskSetTaskStatus(r) BY <1>2 DEF AskSetTaskStatus
<1>3. CASE AskMarkRead(r) BY <1>3 DEF AskMarkRead
<1>4. CASE AskCreateQueue(r) BY <1>4 DEF AskCreateQueue
<1>5. CASE AskUpdateQueue(r) BY <1>5 DEF AskUpdateQueue
<1>6. CASE AskCreateCategory(r) BY <1>6 DEF AskCreateCategory
<1>7. CASE AskUpdateCategory(r) BY <1>7 DEF AskUpdateCategory
<1>8. CASE AskCreateTag(r) BY <1>8 DEF AskCreateTag
<1>9. CASE AskAddTag(r) BY <1>9 DEF AskAddTag
<1>10. CASE AskRemoveTag(r) BY <1>10 DEF AskRemoveTag
<1>11. CASE AskCreateOrganization(r) BY <1>11 DEF AskCreateOrganization
<1>12. CASE AskUpdateOrganization(r) BY <1>12 DEF AskUpdateOrganization
<1>13. CASE AskCreateClient(r) BY <1>13 DEF AskCreateClient
<1>14. CASE AskUpdateClient(r) BY <1>14 DEF AskUpdateClient
<1>15. CASE AskAddContact(r) BY <1>15 DEF AskAddContact
<1>16. CASE AskDeleteContact(r) BY <1>16 DEF AskDeleteContact
<1>17. CASE AskLinkClientUser(r) BY <1>17 DEF AskLinkClientUser
<1>18. CASE AskCreateTicket(r) BY <1>18 DEF AskCreateTicket
<1>19. CASE AskOpenConversation(r) BY <1>19 DEF AskOpenConversation
<1>20. CASE AskPost(r) BY <1>20 DEF AskPost
<1>21. CASE AskAddMessage(r) BY <1>21 DEF AskAddMessage
<1> QED
  BY <1>1, <1>2, <1>3, <1>4, <1>5, <1>6, <1>7, <1>8, <1>9, <1>10, <1>11, <1>12,
     <1>13, <1>14, <1>15, <1>16, <1>17, <1>18, <1>19, <1>20, <1>21
  DEF DeskAsk, PortalAsk

LEMMA InsertCommits ==
  ASSUME Inv, NEW r \in Requests, NEW v, Insert(r, v), Looked(r)
  PROVE  Commits(r)
<1> DEFINE next == [row EXCEPT ![req[r].on] = v]
<1>1. Commit(r, next) /\ DOMAIN next = DOMAIN row
  BY DEF Insert
<1>2. \A t \in Tasks \cup Tickets : next[t] # row[t] => t = req[r].on
  BY DEF Inv, DeskRows, PortalRows
<1> QED BY <1>1, <1>2 DEF Commits

LEMMA UpdateCommits ==
  ASSUME Inv, NEW r \in Requests, NEW patch, Update(r, patch), Looked(r)
  PROVE  Commits(r)
<1> DEFINE o == req[r].on
           next == [row EXCEPT ![o] = Updated(@, patch, Written(patch, req[r].saw))]
<1>1. Commit(r, next) /\ DOMAIN next = DOMAIN row
  BY DEF Update
<1>2. \A t \in Tasks \cup Tickets : next[t] # row[t] => t = o
  BY DEF Inv, DeskRows, PortalRows
<1> QED BY <1>1, <1>2 DEF Commits

\* A commit that leaves the tasks alone.
LEMMA OtherCommits ==
  ASSUME Inv, NEW r \in Requests, NEW next, Commit(r, next), Looked(r),
         DOMAIN next = DOMAIN row, \A t \in Tasks : next[t] = row[t],
         \A t \in Tickets : next[t] # row[t] => t = req[r].on
  PROVE  Commits(r)
BY DEF Commits

LEMMA OneRowCommits ==
  ASSUME Inv, NEW r \in Requests, NEW v, Looked(r), req[r].on \notin Tasks,
         Commit(r, [row EXCEPT ![req[r].on] = v])
  PROVE  Commits(r)
<1> DEFINE next == [row EXCEPT ![req[r].on] = v]
<1>1. DOMAIN next = DOMAIN row
  OBVIOUS
<1>2. \A t \in Tasks \cup Tickets : next[t] # row[t] => t = req[r].on
  BY DEF Inv, DeskRows, PortalRows
<1>3. \A t \in Tasks : next[t] = row[t]
  BY <1>2
<1> QED BY <1>1, <1>2, <1>3, OtherCommits

LEMMA RefuseEnds ==
  ASSUME NEW r \in Requests, Looked(r), Refuse(r)
  PROVE  Ends(r)
BY DEF Refuse, Ends

LEMMA FailEnds ==
  ASSUME NEW r \in Requests, Looked(r), Fail(r), MayFail(req[r])
  PROVE  Ends(r)
BY DEF Fail, Ends

LEMMA ServingLooked ==
  ASSUME Inv, NEW r \in Requests, NEW op, Serving(r, op)
  PROVE  Looked(r) /\ req[r].op = op /\ Fits(op, req[r].on, req[r].ask)
BY DEF Serving, Looked, Inv

-----------------------------------------------------------------------------
LEMMA CreateTaskEnds ==
  ASSUME Inv, NEW r \in Requests, CreateTask(r)
  PROVE  Ends(r) \/ Commits(r)
<1> DEFINE t      == req[r].on
           user   == req[r].ask
           task   == [status |-> "open", completed_at |-> "never"]
           notice == [user |-> user, read_at |-> "never"]
<1>1. Looked(r) /\ req[r].op = "create_task" /\ t \in Tasks
  BY ServingLooked DEF CreateTask, Fits
<1>2. CASE Refuse(r) BY <1>1, <1>2, RefuseEnds
<1>3. CASE Insert(r, task) BY <1>1, <1>3, InsertCommits
<1>4. CASE Commit(r, [row EXCEPT ![t] = task, ![NoticeOf[t]] = notice])
  <2> DEFINE next == [row EXCEPT ![t] = task, ![NoticeOf[t]] = notice]
  <2>1. DOMAIN next = DOMAIN row
    OBVIOUS
  <2>2. NoticeOf[t] \notin Tasks
    BY <1>1, DeskConstants
  <2>3. \A u \in Tasks \cup Tickets : next[u] # row[u] => u = t
    BY <1>1, <2>2, DeskConstants, PortalConstants DEF Inv, DeskRows, PortalRows
  <2> QED BY <1>1, <1>4, <2>1, <2>3 DEF Commits
<1> QED BY <1>2, <1>3, <1>4 DEF CreateTask

LEMMA SetTaskStatusEnds ==
  ASSUME Inv, NEW r \in Requests, SetTaskStatus(r)
  PROVE  Ends(r) \/ Commits(r)
<1>1. Looked(r)
  BY ServingLooked DEF SetTaskStatus
<1>2. CASE Refuse(r) BY <1>1, <1>2, RefuseEnds
<1>3. CASE /\ TaskMayChange(req[r].saw, req[r].ask)
           /\ Update(r, StatusPatch(req[r].ask))
  BY <1>1, <1>3, UpdateCommits
<1> QED BY <1>2, <1>3 DEF SetTaskStatus

\* Requests about rows of one of the three named tables.
LEMMA LookupEnds ==
  ASSUME Inv, NEW r \in Requests, Looked(r), req[r].on \in Lookups,
         \/ /\ req[r].op \in {"create_queue", "create_category", "create_tag"}
            /\ CreateLookup(r) /\ req[r].ask \in Names
         \/ /\ req[r].op \in {"update_queue", "update_category"}
            /\ UpdateLookup(r) /\ req[r].ask \in LookupPatches
  PROVE  Ends(r) \/ Commits(r)
<1>2. CASE /\ req[r].op \in {"create_queue", "create_category", "create_tag"}
           /\ CreateLookup(r) /\ req[r].ask \in Names
  BY <1>2, FailEnds, InsertCommits DEF CreateLookup, MayFail, AsksForName
<1>3. CASE /\ req[r].op \in {"update_queue", "update_category"}
           /\ UpdateLookup(r) /\ req[r].ask \in LookupPatches
  <2> DEFINE patch == req[r].ask
  <2>1. CASE Update(r, patch) BY <2>1, UpdateCommits
  <2>2. CASE /\ Fail(r)
             /\ "name" \in DOMAIN patch /\ NameTaken(req[r].on, patch["name"])
    <3>1. patch["name"] \in Names
      BY <1>3, <2>2 DEF LookupPatches
    <3> QED BY <1>3, <2>2, <3>1, FailEnds DEF MayFail, AsksForName
  <2> QED BY <1>3, <2>1, <2>2 DEF UpdateLookup, Written
<1> QED BY <1>2, <1>3

LEMMA TagEnds ==
  ASSUME Inv, NEW r \in Requests, AddTag(r) \/ RemoveTag(r)
  PROVE  Ends(r) \/ Commits(r)
<1> DEFINE p == req[r].on
<1>1. Looked(r) /\ p \in Pairs
  BY ServingLooked DEF AddTag, RemoveTag, Fits
<1>2. p \notin Tasks \cup Lookups
  BY <1>1, DeskConstants
<1>3. CASE Refuse(r) BY <1>1, <1>3, RefuseEnds
<1>4. CASE Fail(r) /\ req[r].saw = Absent /\ row[p] # Absent
  <2>1. MayFail(req[r])
    BY <1>1, <1>2, <1>4 DEF Inv, Copies, MayFail
  <2> QED BY <1>1, <1>4, <2>1, FailEnds
<1>5. CASE Commit(r, row) BY <1>1, <1>5, OtherCommits
<1>6. ASSUME NEW v, Commit(r, [row EXCEPT ![p] = v])
      PROVE  Commits(r)
  BY <1>1, <1>2, <1>6, OneRowCommits
<1> QED BY <1>3, <1>4, <1>5, <1>6 DEF AddTag, RemoveTag

LEMMA ContactEnds ==
  ASSUME Inv, NEW r \in Requests, AddContact(r) \/ DeleteContact(r)
  PROVE  Ends(r) \/ Commits(r)
<1> DEFINE x == req[r].on
<1>1. Looked(r) /\ x \notin Tasks
  BY ServingLooked, DeskConstants DEF AddContact, DeleteContact, Fits
<1>2. CASE Refuse(r) BY <1>1, <1>2, RefuseEnds
<1>3. CASE Insert(r, "kept") BY <1>1, <1>3, InsertCommits
<1>4. CASE Commit(r, [row EXCEPT ![x] = Deleted(@, req[r].saw)])
  BY <1>1, <1>4, OneRowCommits
<1> QED BY <1>2, <1>3, <1>4 DEF AddContact, DeleteContact

\* Requests about notifications, organizations and clients.
LEMMA RowEnds ==
  ASSUME Inv, NEW r \in Requests,
         \/ MarkNotificationRead(r)
         \/ CreateOrganization(r) \/ UpdateOrganization(r)
         \/ CreateClient(r) \/ UpdateClient(r)
  PROVE  Ends(r) \/ Commits(r)
<1>1. Looked(r) /\ req[r].on \notin Tasks
  BY ServingLooked, DeskConstants
  DEF MarkNotificationRead, CreateOrganization, UpdateOrganization, CreateClient,
      UpdateClient, Fits
<1>2. CASE Refuse(r) BY <1>1, <1>2, RefuseEnds
<1>3. ASSUME NEW v, Insert(r, v) PROVE Commits(r)
  BY <1>1, <1>3, InsertCommits
<1>4. ASSUME NEW patch, Update(r, patch) PROVE Commits(r)
  BY <1>1, <1>4, UpdateCommits
<1> QED
  BY <1>2, <1>3, <1>4
  DEF MarkNotificationRead, CreateOrganization, UpdateOrganization, CreateClient, UpdateClient

\* A link is refused by a constraint only if the look was overtaken.
LEMMA LinkEnds ==
  ASSUME Inv, NEW r \in Requests, LinkClientUser(r)
  PROVE  Ends(r) \/ Commits(r)
<1> DEFINE link == req[r].ask
<1>1. Looked(r) /\ req[r].on = LinkTable
  BY ServingLooked DEF LinkClientUser, Fits
<1>2. LinkTable \notin Tasks \cup Lookups
  BY PortalConstants DEF DeskRows
<1>3. CASE Refuse(r) BY <1>1, <1>3, RefuseEnds
<1>4. CASE Commit(r, row) BY <1>1, <1>4, OtherCommits
<1>5. CASE Commit(r, [row EXCEPT ![LinkTable] = @ \cup {link}])
  BY <1>1, <1>2, <1>5, OneRowCommits
<1>6. CASE Fail(r) /\ Existing(req[r].saw, link) = {} /\ Clashes(row[LinkTable], link)
  <2>1. MayFail(req[r])
    BY <1>1, <1>2, <1>6 DEF Inv, Copies, Existing, Clashes, MayFail
  <2> QED BY <1>1, <1>6, <2>1, FailEnds
<1> QED BY <1>3, <1>4, <1>5, <1>6 DEF LinkClientUser

LEMMA TicketEnds ==
  ASSUME Inv, NEW r \in Requests,
         CreateTicket(r) \/ OpenConversation(r) \/ Post(r) \/ AddMessage(r)
  PROVE  Ends(r) \/ Commits(r)
<1> DEFINE t == req[r].on
<1>1. Looked(r) /\ t \in Tickets
  <2>1. PICK op \in {"portal_create_ticket", "portal_add_message", "create_conversation",
                     "create_message"} : Serving(r, op)
    BY DEF CreateTicket, OpenConversation, Post, AddMessage
  <2>2. Looked(r) /\ Fits(op, t, req[r].ask)
    BY <2>1, ServingLooked
  <2> QED BY <2>2 DEF Fits
<1>2. t \notin Tasks
  <2>1. Tickets \cap DeskRows = {}
    BY PortalConstants, Zenon
  <2>2. Tasks \subseteq DeskRows
    BY Zenon DEF DeskRows
  <2> QED BY <1>1, <2>1, <2>2, Zenon
<1>3. CASE Refuse(r) BY <1>1, <1>3, RefuseEnds
<1>4. ASSUME NEW v, Commit(r, [row EXCEPT ![t] = v])
      PROVE  Commits(r)
  BY <1>1, <1>2, <1>4, OneRowCommits
<1>5. ASSUME NEW threads, Commit(r, [row EXCEPT ![t].threads = threads])
      PROVE  Commits(r)
  BY <1>4, <1>5
<1>6. CASE CreateTicket(r) BY <1>3, <1>4, <1>6 DEF CreateTicket
<1>7. CASE OpenConversation(r) BY <1>5, <1>7 DEF OpenConversation
<1>8. CASE Post(r) BY <1>5, <1>8 DEF Post
<1>9. CASE AddMessage(r) BY <1>3, <1>5, <1>9 DEF AddMessage
<1> QED BY <1>6, <1>7, <1>8, <1>9

LEMMA ServeEnds ==
  ASSUME Inv, NEW r \in Requests, DeskServe(r) \/ PortalServe(r)
  PROVE  Ends(r) \/ Commits(r)
<1>1. CASE \/ CreateQueue(r) \/ UpdateQueue(r) \/ CreateCategory(r)
           \/ UpdateCategory(r) \/ CreateTag(r)
  <2>1. /\ Looked(r) /\ req[r].on \in Lookups
        /\ \/ /\ req[r].op \in {"create_queue", "create_category", "create_tag"}
              /\ CreateLookup(r) /\ req[r].ask \in Names
           \/ /\ req[r].op \in {"update_queue", "update_category"}
              /\ UpdateLookup(r) /\ req[r].ask \in LookupPatches
    BY <1>1, ServingLooked, DeskConstants
    DEF LookupsOf, CreateQueue, UpdateQueue, CreateCategory, UpdateCategory, CreateTag, Fits
  <2> QED BY <2>1, LookupEnds
<1> QED
  BY <1>1, CreateTaskEnds, SetTaskStatusEnds, TagEnds, ContactEnds, RowEnds, LinkEnds,
     TicketEnds
  DEF DeskServe, PortalServe

-----------------------------------------------------------------------------
LEMMA LookKeepsInv ==
  ASSUME Inv, NEW r \in Requests, Asks(r)
  PROVE  Inv'
<1>1. PICK op, on, ask :
        /\ Look(r, op, on, ask)
        /\ Fits(op, on, ask)
        /\ op \in Creations => Fresh(on)
        /\ on \in Tasks \cup Tickets /\ op \notin Creations => row[on] # Absent
  BY DEF Asks
<1> DEFINE q == [at |-> "looked", op |-> op, on |-> on, ask |-> ask,
                 saw |-> row[on], late |-> FALSE]
<1>2. req' = [req EXCEPT ![r] = q] /\ row' = row
  BY <1>1 DEF Look
<1>3. DOMAIN req' = Requests /\ \A s \in Requests : req'[s] = IF s = r THEN q ELSE req[s]
  BY <1>2 DEF Inv
<1>4. (\A s \in Requests : Record(req[s]))'
  BY <1>3 DEF Inv, Record
<1>5. (\A s \in Requests : Looked(s) => Fits(req[s].op, req[s].on, req[s].ask))'
  <2> TAKE s \in Requests
  <2>1. CASE s = r BY <1>1, <1>3, <2>1
  <2>2. CASE s # r BY <1>3, <2>2 DEF Inv, Looked
  <2> QED BY <2>1, <2>2
<1>6. Copies'
  BY <1>2, <1>3 DEF Inv, Copies, Looked
<1>7. Reserved'
  <2> SUFFICES ASSUME NEW s \in Requests, Looked(s)', (req[s].op \in Creations)'
               PROVE  /\ (row[req[s].on] = Absent)'
                      /\ \A u \in Requests \ {s} : (Looked(u) => req[u].on # req[s].on)'
    BY DEF Reserved
  <2>1. CASE s = r
    <3>1. op \in Creations /\ req'[s].on = on
      BY <1>3, <2>1
    <3>2. row[on] = Absent /\ \A u \in Requests : req[u].on # on
      BY <1>1, <3>1 DEF Fresh
    <3> QED BY <1>2, <1>3, <2>1, <3>1, <3>2
  <2>2. CASE s # r
    <3>1. /\ Looked(s) /\ req[s].op \in Creations /\ req'[s].on = req[s].on
          /\ row[req[s].on] = Absent
          /\ \A u \in Requests \ {s} : Looked(u) => req[u].on # req[s].on
      BY <1>3, <2>2 DEF Inv, Reserved, Looked
    <3>2. req[s].on \in Tasks \cup Tickets
      BY <3>1 DEF Inv, Fits, Creations
    <3>3. on # req[s].on
      BY <1>1, <3>1, <3>2 DEF Fresh
    <3> QED BY <1>2, <1>3, <2>2, <3>1, <3>3 DEF Looked
  <2> QED BY <2>1, <2>2
<1> QED BY <1>2, <1>3, <1>4, <1>5, <1>6, <1>7 DEF Inv

LEMMA EndKeepsInv ==
  ASSUME Inv, NEW r \in Requests, Ends(r)
  PROVE  Inv'
<1>1. PICK at \in {"refused", "failed"} : req' = [req EXCEPT ![r] = Settled(at)]
  BY DEF Ends
<1>2. row' = row
  BY DEF Ends
<1>3. DOMAIN req' = Requests /\ \A s \in Requests : req'[s] = IF s = r THEN Settled(at) ELSE req[s]
  BY <1>1 DEF Inv
<1>4. Record(Settled(at)) /\ Settled(at).at # "looked"
  BY DEF Record, Settled, Unmade
<1>5. \A s \in Requests : Looked(s)' => s # r /\ Looked(s) /\ req'[s] = req[s]
  BY <1>3, <1>4 DEF Looked
<1>6. (\A s \in Requests : Record(req[s]))'
  BY <1>3, <1>4 DEF Inv, Record
<1>7. (\A s \in Requests : Looked(s) => Fits(req[s].op, req[s].on, req[s].ask))'
  BY <1>5 DEF Inv
<1>8. Copies' /\ Reserved'
  BY <1>2, <1>5 DEF Inv, Copies, Reserved
<1> QED BY <1>2, <1>3, <1>6, <1>7, <1>8 DEF Inv

LEMMA CommitKeepsInv ==
  ASSUME Inv, NEW r \in Requests, Commits(r)
  PROVE  Inv'
<1>1. PICK next :
        /\ Commit(r, next)
        /\ DOMAIN next = DOMAIN row
        /\ \A t \in Tasks \cup Tickets : next[t] # row[t] => t = req[r].on
  BY DEF Commits
<1>2. row' = next /\ DOMAIN req' = Requests
  BY <1>1 DEF Commit
<1>3. \A s \in Requests :
        req'[s] = IF s = r THEN Settled("answered")
                  ELSE IF Looked(s) /\ next[req[s].on] # row[req[s].on]
                       THEN [req[s] EXCEPT !.late = TRUE]
                       ELSE req[s]
  BY <1>1 DEF Commit, Looked
<1>4. Record(Settled("answered")) /\ Settled("answered").at # "looked"
  BY DEF Record, Settled, Unmade
<1>5. \A s \in Requests :
        LET q == [req[s] EXCEPT !.late = TRUE]
        IN  /\ Record(q)
            /\ q.at = req[s].at /\ q.op = req[s].op /\ q.on = req[s].on
            /\ q.ask = req[s].ask /\ q.saw = req[s].saw /\ q.late
  BY DEF Inv, Record
<1>6. \A s \in Requests : Looked(s)' =>
        /\ s # r /\ Looked(s)
        /\ req'[s].op = req[s].op /\ req'[s].on = req[s].on /\ req'[s].ask = req[s].ask
        /\ req'[s].saw = req[s].saw
        /\ ~req'[s].late => ~req[s].late /\ next[req[s].on] = row[req[s].on]
  BY <1>3, <1>4, <1>5 DEF Looked
<1>7. (\A s \in Requests : Record(req[s]))'
  BY <1>3, <1>4, <1>5 DEF Inv, Record
<1>8. (\A s \in Requests : Looked(s) => Fits(req[s].op, req[s].on, req[s].ask))'
  BY <1>6 DEF Inv
<1>9. Copies'
  BY <1>2, <1>6 DEF Inv, Copies
<1>10. Reserved'
  <2> SUFFICES ASSUME NEW s \in Requests, Looked(s)', (req[s].op \in Creations)'
               PROVE  /\ (row[req[s].on] = Absent)'
                      /\ \A u \in Requests \ {s} : (Looked(u) => req[u].on # req[s].on)'
    BY DEF Reserved
  <2>1. /\ Looked(s) /\ s # r /\ req[s].op \in Creations /\ req'[s].on = req[s].on
        /\ req[s].on \in Tasks \cup Tickets
    BY <1>6 DEF Inv, Fits, Creations
  <2>2. /\ row[req[s].on] = Absent
        /\ \A u \in Requests \ {s} : Looked(u) => req[u].on # req[s].on
    BY <2>1 DEF Inv, Reserved
  <2>3. next[req[s].on] = Absent
    BY <1>1, <2>1, <2>2 DEF Commits
  <2> QED BY <1>2, <1>6, <2>1, <2>2, <2>3
<1> QED BY <1>1, <1>2, <1>7, <1>8, <1>9, <1>10 DEF Inv

-----------------------------------------------------------------------------
LEMMA InitInv == Init => Inv
<1> SUFFICES ASSUME Init PROVE Inv
  OBVIOUS
<1>1. DOMAIN row = DeskRows \cup PortalRows
  BY PortalConstants DEF Init
<1>2. \A r \in Requests : Record(req[r]) /\ ~Looked(r)
  BY DEF Init, Record, Looked, Unmade, Settled
<1> QED BY <1>1, <1>2 DEF Init, Inv, Copies, Reserved

LEMMA StepKeepsInv == Inv /\ [Next]_vars => Inv'
<1> SUFFICES ASSUME Inv, [Next]_vars PROVE Inv'
  OBVIOUS
<1>1. CASE UNCHANGED vars
  BY <1>1 DEF vars, Inv, Copies, Reserved, Looked
<1>2. ASSUME NEW r \in Requests, DeskAsk(r) \/ PortalAsk(r) PROVE Inv'
  BY <1>2, AskIsLook, LookKeepsInv
<1>3. ASSUME NEW r \in Requests, DeskServe(r) \/ PortalServe(r) PROVE Inv'
  BY <1>3, ServeEnds, EndKeepsInv, CommitKeepsInv
<1> QED BY <1>1, <1>2, <1>3 DEF Next

\* The requests and rows agree in every reachable state.
LEMMA AlwaysInv == Spec => []Inv
BY InitInv, StepKeepsInv, PTL DEF Spec

\* What a step says of a request that fails.
LEMMA FailuresAreAccounted ==
  ASSUME Inv, [Next]_vars
  PROVE  \A r \in Requests : Looked(r) /\ req'[r].at = "failed" => MayFail(req[r])
<1>1. CASE UNCHANGED vars
  BY <1>1 DEF vars, Looked
<1>2. ASSUME NEW s \in Requests, Asks(s)
      PROVE  \A r \in Requests : Looked(r) => req'[r].at = "looked"
  BY <1>2 DEF Asks, Look, Inv, Looked
<1>3. ASSUME NEW s \in Requests, Ends(s)
      PROVE  \A r \in Requests : Looked(r) /\ req'[r].at = "failed" => MayFail(req[r])
  <2>1. \A r \in Requests : r # s => req'[r] = req[r]
    BY <1>3 DEF Ends, Inv
  <2>2. Settled("refused").at # "failed"
    BY DEF Settled, Unmade
  <2> QED BY <1>3, <2>1, <2>2 DEF Ends, Inv, Looked
<1>4. ASSUME NEW s \in Requests, Commits(s)
      PROVE  \A r \in Requests : Looked(r) => req'[r].at # "failed"
  <2> SUFFICES ASSUME NEW r \in Requests, Looked(r) PROVE req'[r].at # "failed"
    OBVIOUS
  <2>1. PICK next : Commit(s, next)
    BY <1>4 DEF Commits
  <2>2. CASE r = s
    <3>1. Settled("answered").at = "answered"
      BY DEF Settled, Unmade
    <3> QED BY <2>1, <2>2, <3>1 DEF Commit
  <2>3. CASE r # s
    <3>1. [req[r] EXCEPT !.late = TRUE].at = "looked"
      BY DEF Inv, Record, Looked
    <3>2. req'[r] = req[r] \/ req'[r] = [req[r] EXCEPT !.late = TRUE]
      BY <2>1, <2>3 DEF Commit
    <3> QED BY <3>1, <3>2 DEF Looked
  <2> QED BY <2>2, <2>3
<1>5. CASE Next
  <2>1. PICK s \in Requests : DeskAsk(s) \/ DeskServe(s) \/ PortalAsk(s) \/ PortalServe(s)
    BY <1>5 DEF Next
  <2>2. CASE Asks(s)
    BY <1>2, <2>2
  <2>3. CASE Ends(s)
    BY <1>3, <2>3
  <2>4. CASE Commits(s)
    BY <1>4, <2>4
  <2> QED BY <2>1, <2>2, <2>3, <2>4, AskIsLook, ServeEnds
<1> QED BY <1>1, <1>5

\* A request about a queue, a category or a tag fails on a constraint of the
\* database only if the name it asks for is in use, and any other only if
\* another request changed the row it had looked at: the checks of add_tag and
\* link_client_user cover the constraints they precede.
THEOREM OnlyClashesFail == Spec => FailuresAreClashes
<1>1. Inv /\ [Next]_vars =>
        [\A r \in Requests :
           req[r].at = "looked" /\ req'[r].at = "failed" => MayFail(req[r])]_vars
  BY FailuresAreAccounted DEF Looked
<1> QED BY <1>1, AlwaysInv, PTL DEF Spec, FailuresAreClashes
-----------------------------------------------------------------------------
(***************************************************************************)
(* What the answered requests asked for is what is stored, and every row   *)
(* keeps the shape of its table.                                           *)
(***************************************************************************)
Rows == DeskRows \cup PortalRows

\* Requests that change a row which is stored.
Changes == {"set_task_status", "mark_notification_read", "update_queue", "update_category",
            "update_organization", "update_client", "create_conversation", "create_message",
            "portal_add_message"}

\* Rows that are updated by column.
Plain == Tasks \cup Notices \cup Lookups \cup Organizations \cup Clients

Ids(ticket) == {ticket.threads[i].id : i \in DOMAIN ticket.threads}

\* What is stored under o is what was granted of it.
RowGranted(o) ==
  /\ Shape(o, row[o])
  /\ o \in Tasks /\ row[o] = Absent => row[NoticeOf[o]] = Absent
  /\ o \in Tasks \cup Notices \cup {LinkTable} => row[o] = granted[o]
  /\ o \in Plain /\ row[o] # Absent =>
       /\ DOMAIN granted[o] = DOMAIN row[o]
       /\ \A c \in DOMAIN row[o] : <<o, c>> \in unwritten \/ row[o][c] = granted[o][c]
  /\ o \in Pairs => <<o, "row">> \in unwritten \/ (row[o] # Absent <=> granted[o] = "tagged")
  /\ o \in Contacts => (row[o] # Absent <=> granted[o] = "kept")
  /\ o \in Tickets /\ row[o] # Absent => ListMessages(o) = granted[o]

\* What a copy v of row o says of the row w of o later on.
Follows(o, v, w) ==
  /\ o \notin Pairs \cup Contacts \cup {LinkTable} /\ v # Absent => w # Absent
  /\ o \in Notices /\ v # Absent /\ v.read_at = "stamped" => w.read_at = "stamped"
  /\ o \in Tickets /\ v # Absent => Ids(v) \subseteq Ids(w)

\* A request's copy is an earlier state of the row.
CopyHolds(r) ==
  Looked(r) =>
    LET o == req[r].on IN
    /\ Shape(o, req[r].saw)
    /\ Follows(o, req[r].saw, row[o])
    /\ req[r].op \in Changes => req[r].saw # Absent
    /\ req[r].op = "create_message" => req[r].ask \in Ids(row[o])

Granted ==
  /\ DOMAIN granted = Rows
  /\ \A o \in Rows : RowGranted(o)
  /\ \A r \in Requests :
       /\ req[r].at \in {"unmade", "looked", "answered", "refused", "failed"}
       /\ req[r].late \in BOOLEAN
       /\ ~Looked(r) => req[r] = Settled(req[r].at)
       /\ CopyHolds(r)

-----------------------------------------------------------------------------
\* What a serving request does to the rows.
Serves ==
  /\ DOMAIN row' = Rows /\ DOMAIN granted' = Rows
  /\ \A o \in Rows : RowGranted(o)' /\ Follows(o, row[o], row'[o])

\* Rows that a step leaves alone.
Untouched(o) ==
  /\ row'[o] = row[o] /\ granted'[o] = granted[o]
  /\ \A c : <<o, c>> \in unwritten' <=> <<o, c>> \in unwritten

LEMMA UntouchedHolds ==
  ASSUME NEW o \in Rows, RowGranted(o), Untouched(o),
         o \in Tasks => row'[NoticeOf[o]] = row[NoticeOf[o]]
  PROVE  RowGranted(o)' /\ Follows(o, row[o], row'[o])
BY DEF RowGranted, Untouched, Follows, ListMessages, Shape, IsRow

\* It is enough to look at the row a request is about.
LEMMA OneRow ==
  ASSUME Inv, Granted, NEW o \in Rows,
         DOMAIN row' = Rows, DOMAIN granted' = Rows,
         RowGranted(o)', Follows(o, row[o], row'[o]),
         \A p \in Rows \ {o} : Untouched(p),
         o \in Notices => (row[o] # Absent \/ row'[o] = Absent)
  PROVE  Serves
<1> SUFFICES ASSUME NEW p \in Rows, p # o
             PROVE  RowGranted(p)' /\ Follows(p, row[p], row'[p])
  BY DEF Serves
<1>1. RowGranted(p) /\ Untouched(p)
  BY DEF Granted
<1>2. CASE p \notin Tasks \/ NoticeOf[p] # o
  <2>1. p \in Tasks => NoticeOf[p] \in Rows
    BY DeskConstants DEF Rows, DeskRows
  <2> QED BY <1>1, <1>2, <2>1, UntouchedHolds DEF Untouched
<1>3. CASE p \in Tasks /\ NoticeOf[p] = o
  <2>1. o \in Notices /\ o \notin Tasks
    BY <1>3, DeskConstants
  <2>2. row[p] = Absent => row'[o] = Absent
    BY <1>1, <1>3, <2>1 DEF RowGranted
  <2>3. p \notin Notices \cup Lookups \cup Pairs \cup Contacts \cup Organizations \cup Clients
    BY <1>3, DeskConstants
  <2>4. p \notin Tickets /\ p # LinkTable
    BY <1>3, PortalConstants DEF DeskRows
  <2>5. RowGranted(p)'
    BY <1>1, <1>3, <2>2, <2>3, <2>4 DEF RowGranted, Untouched, Shape, IsRow
  <2>6. Follows(p, row[p], row'[p])
    BY <1>1, <2>3, <2>4 DEF Follows, Untouched
  <2> QED BY <2>5, <2>6
<1> QED BY <1>2, <1>3

LEMMA NothingServes ==
  ASSUME Inv, Granted, row' = row, granted' = granted, unwritten' = unwritten
  PROVE  Serves
<1>1. \A o \in Rows : Untouched(o)
  BY DEF Untouched
<1>2. \A o \in Rows : RowGranted(o)
  BY DEF Granted
<1> QED BY <1>1, <1>2, UntouchedHolds DEF Serves, Granted, Inv, Rows

\* The kinds of rows are told apart.
LEMMA Kinds ==
  /\ \A o \in Tasks : o \notin Notices \cup Lookups \cup Pairs \cup Organizations
                              \cup Clients \cup Contacts \cup Tickets \cup {LinkTable}
  /\ \A o \in Notices : o \notin Tasks \cup Lookups \cup Pairs \cup Organizations
                                \cup Clients \cup Contacts \cup Tickets \cup {LinkTable}
  /\ \A o \in Lookups : o \notin Tasks \cup Notices \cup Pairs \cup Organizations
                                \cup Clients \cup Contacts \cup Tickets \cup {LinkTable}
  /\ \A o \in Pairs : o \notin Tasks \cup Notices \cup Lookups \cup Organizations
                              \cup Clients \cup Contacts \cup Tickets \cup {LinkTable}
  /\ \A o \in Organizations : o \notin Tasks \cup Notices \cup Lookups \cup Pairs
                              \cup Clients \cup Contacts \cup Tickets \cup {LinkTable}
  /\ \A o \in Clients : o \notin Tasks \cup Notices \cup Lookups \cup Pairs
                              \cup Organizations \cup Contacts \cup Tickets \cup {LinkTable}
  /\ \A o \in Contacts : o \notin Tasks \cup Notices \cup Lookups \cup Pairs
                              \cup Organizations \cup Clients \cup Tickets \cup {LinkTable}
  /\ \A o \in Tickets : o \notin Tasks \cup Notices \cup Lookups \cup Pairs
                              \cup Organizations \cup Clients \cup Contacts \cup {LinkTable}
  /\ LinkTable \notin Tasks \cup Notices \cup Lookups \cup Pairs
                              \cup Organizations \cup Clients \cup Contacts \cup Tickets
BY DeskConstants, PortalConstants DEF DeskRows

LEMMA InsertServes ==
  ASSUME Inv, Granted, NEW r \in Requests, NEW v, Looked(r), Insert(r, v),
         req[r].on \in Tasks \cup Lookups \cup Organizations \cup Clients \cup Contacts,
         IsRow(req[r].on, v)
  PROVE  Serves
<1>0. PICK o : o = req[r].on
  OBVIOUS
<1>1. row' = [row EXCEPT ![o] = v] /\ granted' = [granted EXCEPT ![o] = v] /\ unwritten' = unwritten
  BY <1>0 DEF Insert, Commit
<1>2. o \in Rows /\ o # LinkTable /\ o \notin Notices
  BY <1>0, Kinds DEF Rows, DeskRows
<1>3. DOMAIN row = Rows /\ DOMAIN granted = Rows
  BY DEF Inv, Granted, Rows
<1>4. row'[o] = v /\ granted'[o] = v /\ v # Absent
  BY <1>1, <1>2, <1>3, <1>0, StartsAreRows DEF Rows
<1>5. \A p \in Rows \ {o} : Untouched(p)
  BY <1>1, <1>3 DEF Untouched
<1>6. o \in Contacts => v = "kept"
  BY <1>0, Kinds DEF IsRow, LookupsOf
<1>7. o \notin Tickets \cup Pairs \cup Notices
  BY <1>0, Kinds
<1>8. RowGranted(o)'
  BY <1>0, <1>2, <1>4, <1>6, <1>7 DEF RowGranted, Shape, Plain
<1>9. Follows(o, row[o], row'[o])
  BY <1>2, <1>4, <1>7 DEF Follows
<1>10. DOMAIN row' = Rows /\ DOMAIN granted' = Rows
  BY <1>1, <1>3
<1> QED BY <1>2, <1>5, <1>8, <1>9, <1>10, OneRow

\* An update of row o, given what it makes of the row.
LEMMA UpdateServes ==
  ASSUME Inv, Granted, NEW r \in Requests, NEW patch, Looked(r), Update(r, patch),
         req[r].op \in Changes, req[r].on \in Plain,
         DOMAIN patch \subseteq DOMAIN row[req[r].on],
         IsRow(req[r].on, Updated(row[req[r].on], patch, Written(patch, req[r].saw))),
         req[r].on \in Notices => patch = [read_at |-> "stamped"],
         req[r].on \in Tasks \cup Notices =>
           \A c \in DOMAIN patch \ Written(patch, req[r].saw) : row[req[r].on][c] = patch[c]
  PROVE  Serves
<1>0. PICK o : o = req[r].on
  OBVIOUS
<1> DEFINE saw   == req[r].saw
           wrote == Written(patch, saw)
           v     == Updated(row[o], patch, wrote)
           w     == Updated(granted[o], patch, DOMAIN patch)
<1>1. /\ row' = [row EXCEPT ![o] = v] /\ granted' = [granted EXCEPT ![o] = w]
      /\ unwritten' = (unwritten \ ({o} \X wrote))
           \cup (IF req[r].late THEN {o} \X (DOMAIN patch \ wrote) ELSE {})
  BY <1>0 DEF Update, Commit
<1>2. o \in Rows /\ o # LinkTable /\ o \notin Pairs \cup Contacts \cup Tickets
  BY <1>0, Kinds DEF Rows, DeskRows, Plain
<1>3. DOMAIN row = Rows /\ DOMAIN granted = Rows
  BY DEF Inv, Granted, Rows
<1>4. row'[o] = v /\ granted'[o] = w /\ v # Absent
  BY <1>1, <1>2, <1>3, <1>0, StartsAreRows DEF Rows
<1>5. \A p \in Rows \ {o} : Untouched(p)
  BY <1>1, <1>3 DEF Untouched
<1>6. /\ saw # Absent /\ row[o] # Absent /\ RowGranted(o)
      /\ o \in Notices /\ saw.read_at = "stamped" => row[o].read_at = "stamped"
  BY <1>0, <1>2 DEF Granted, CopyHolds, Follows
<1>7. ~req[r].late => saw = row[o]
  BY <1>0 DEF Inv, Copies
<1>8. DOMAIN granted[o] = DOMAIN row[o] /\ DOMAIN v = DOMAIN row[o] /\ DOMAIN w = DOMAIN row[o]
  BY <1>0, <1>6 DEF RowGranted, Updated
<1>9. wrote \subseteq DOMAIN patch /\ \A c \in DOMAIN patch \ wrote : patch[c] = saw[c]
  BY DEF Written
<1>10. \A c \in DOMAIN row[o] : <<o, c>> \in unwritten' \/ v[c] = w[c]
  <2> SUFFICES ASSUME NEW c \in DOMAIN row[o]
               PROVE  <<o, c>> \in unwritten' \/ v[c] = w[c]
    OBVIOUS
  <2> HIDE DEF wrote, saw
  <2>1. v[c] = (IF c \in wrote THEN patch[c] ELSE row[o][c])
        /\ w[c] = (IF c \in DOMAIN patch THEN patch[c] ELSE granted[o][c])
    BY <1>8 DEF Updated
  <2>2. CASE c \in wrote BY <1>9, <2>1, <2>2
  <2>3. CASE c \in DOMAIN patch \ wrote
    <3>1. CASE req[r].late BY <1>1, <2>3, <3>1
    <3>2. CASE ~req[r].late BY <1>7, <1>9, <2>1, <2>3, <3>2
    <3> QED BY <3>1, <3>2
  <2>4. CASE c \notin DOMAIN patch
    <3>1. <<o, c>> \in unwritten \/ row[o][c] = granted[o][c]
      BY <1>0, <1>6 DEF RowGranted, Plain
    <3>2. c \notin wrote
      BY <1>9, <2>4
    <3> QED BY <1>1, <2>1, <2>4, <3>1, <3>2
  <2> QED BY <2>2, <2>3, <2>4
<1>11. o \in Tasks \cup Notices => v = w
  <2> SUFFICES ASSUME o \in Tasks \cup Notices PROVE v = w
    OBVIOUS
  <2>1. granted[o] = row[o]
    BY <1>6 DEF RowGranted
  <2>2. \A c \in DOMAIN row[o] :
          (IF c \in wrote THEN patch[c] ELSE row[o][c])
          = (IF c \in DOMAIN patch THEN patch[c] ELSE row[o][c])
    BY <1>0, <1>9
  <2> QED BY <2>1, <2>2 DEF Updated
<1>12. o \in Notices /\ row[o].read_at = "stamped" => v.read_at = "stamped"
  <2> SUFFICES ASSUME o \in Notices, row[o].read_at = "stamped" PROVE v.read_at = "stamped"
    OBVIOUS
  <2>1. row[o] \in [user : Members, read_at : {"never", "stamped"}]
    BY <1>2, <1>6, Kinds DEF RowGranted, Shape, IsRow, LookupsOf
  <2> QED BY <1>0, <1>9, <2>1 DEF Updated
<1>13. RowGranted(o)'
  BY <1>0, <1>2, <1>4, <1>8, <1>10, <1>11, Kinds DEF RowGranted, Shape, Plain
<1>14. Follows(o, row[o], row'[o])
  BY <1>2, <1>4, <1>12 DEF Follows
<1>15. DOMAIN row' = Rows /\ DOMAIN granted' = Rows
  BY <1>1, <1>3
<1> QED BY <1>2, <1>5, <1>6, <1>13, <1>14, <1>15, OneRow

-----------------------------------------------------------------------------
\* The copy of a request that changes a row, and the row itself.
LEMMA Found ==
  ASSUME Granted, NEW r \in Requests, Looked(r), req[r].op \in Changes,
         req[r].on \in Rows \ (Pairs \cup Contacts \cup {LinkTable})
  PROVE  /\ req[r].saw # Absent /\ IsRow(req[r].on, req[r].saw)
         /\ row[req[r].on] # Absent /\ IsRow(req[r].on, row[req[r].on])
         /\ Follows(req[r].on, req[r].saw, row[req[r].on])
BY DEF Granted, CopyHolds, Follows, RowGranted, Shape

LEMMA CreateTaskServes ==
  ASSUME Inv, Granted, NEW r \in Requests, CreateTask(r)
  PROVE  Serves
<1>0. PICK t, user : t = req[r].on /\ user = req[r].ask
  OBVIOUS
<1> DEFINE task   == [status |-> "open", completed_at |-> "never"]
           notice == [user |-> user, read_at |-> "never"]
           n      == NoticeOf[t]
<1>1. Looked(r) /\ t \in Tasks
  BY <1>0, ServingLooked DEF CreateTask, Fits
<1>2. CASE Refuse(r)
  BY <1>2, NothingServes DEF Refuse
<1>3. CASE Insert(r, task)
  <2>1. IsRow(t, task)
    BY <1>1 DEF IsRow
  <2> QED BY <1>0, <1>1, <1>3, <2>1, InsertServes
<1>4. CASE /\ ValidAssignee(user) /\ user # None
           /\ Commit(r, [row EXCEPT ![t] = task, ![n] = notice])
           /\ granted' = [granted EXCEPT ![t] = task, ![n] = notice]
           /\ UNCHANGED unwritten
  <2>1. n \in Notices /\ n # t /\ {n, t} \subseteq Rows
    BY <1>1, DeskConstants DEF Rows, DeskRows
  <2>2. DOMAIN row = Rows /\ DOMAIN granted = Rows
    BY DEF Inv, Granted, Rows
  <2>3. row' = [row EXCEPT ![t] = task, ![n] = notice]
    BY <1>4 DEF Commit
  <2>4. /\ row'[t] = task /\ granted'[t] = task /\ row'[n] = notice /\ granted'[n] = notice
        /\ DOMAIN row' = Rows /\ DOMAIN granted' = Rows /\ unwritten' = unwritten
        /\ \A o \in Rows \ {t, n} : row'[o] = row[o] /\ granted'[o] = granted[o]
    BY <1>4, <2>1, <2>2, <2>3
  <2>5. IsRow(t, task) /\ IsRow(n, notice) /\ task # Absent /\ notice # Absent
        /\ n # LinkTable /\ t # LinkTable
    <3>1. IsRow(t, task) /\ IsRow(n, notice)
      BY <1>1, <1>4, <2>1 DEF IsRow, ValidAssignee
    <3> QED BY <2>1, <3>1, <1>1, Kinds, StartsAreRows DEF Rows
  <2>6. row[t] = Absent /\ row[n] = Absent
    <3>1. row[t] = Absent
      BY <1>0, <1>1, ServingLooked DEF CreateTask, Inv, Reserved, Creations
    <3> QED BY <1>1, <2>1, <3>1 DEF Granted, RowGranted
  <2>7. RowGranted(t)' /\ Follows(t, row[t], row'[t])
    BY <1>1, <2>4, <2>5, <2>6, Kinds DEF RowGranted, Follows, Shape, Plain
  <2>8. RowGranted(n)' /\ Follows(n, row[n], row'[n])
    BY <2>1, <2>4, <2>5, <2>6, Kinds DEF RowGranted, Follows, Shape, Plain
  <2>9. ASSUME NEW o \in Rows \ {t, n}
        PROVE  RowGranted(o)' /\ Follows(o, row[o], row'[o])
    <3>1. Untouched(o) /\ RowGranted(o)
      BY <2>4 DEF Untouched, Granted
    <3>2. o \in Tasks => NoticeOf[o] \in Rows /\ NoticeOf[o] # n /\ NoticeOf[o] # t
      BY <1>1, <2>9, DeskConstants DEF Rows, DeskRows
    <3> QED BY <2>4, <3>1, <3>2, UntouchedHolds
  <2> QED BY <2>4, <2>7, <2>8, <2>9 DEF Serves
<1> QED BY <1>0, <1>2, <1>3, <1>4 DEF CreateTask

LEMMA SetTaskStatusServes ==
  ASSUME Inv, Granted, NEW r \in Requests, SetTaskStatus(r)
  PROVE  Serves
<1> DEFINE t == req[r].on
<1>1. Looked(r) /\ t \in Tasks /\ req[r].op = "set_task_status"
  BY ServingLooked DEF SetTaskStatus, Fits
<1>2. CASE Refuse(r)
  BY <1>2, NothingServes DEF Refuse
<1>3. CASE /\ TaskMayChange(req[r].saw, req[r].ask)
           /\ Update(r, StatusPatch(req[r].ask))
  <2> DEFINE patch == StatusPatch(req[r].ask)
  <2>1. IsRow(t, row[t]) /\ IsRow(t, req[r].saw)
    BY <1>1, Found, Kinds DEF Changes, Rows, DeskRows
  <2> DEFINE Statuses == {"open", "done", "cancelled"}
             Times    == {"never", "stamped"}
  <2>2. /\ row[t] \in [status : Statuses, completed_at : Times]
        /\ req[r].saw \in [status : Statuses, completed_at : Times]
        /\ req[r].saw.status = "open" => req[r].saw.completed_at = "never"
    BY <1>1, <2>1, Kinds DEF IsRow, LookupsOf
  <2>3. req[r].saw.status = "open" /\ req[r].saw.completed_at = "never"
    BY <1>3, <2>2 DEF TaskMayChange
  <2>4. DOMAIN patch \subseteq {"status", "completed_at"}
        /\ patch["status"] \in {"done", "cancelled"}
        /\ ("completed_at" \in DOMAIN patch => patch["completed_at"] = "stamped")
    BY <1>3 DEF StatusPatch, TaskMayChange
  <2>5. Written(patch, req[r].saw) = DOMAIN patch
    BY <2>3, <2>4 DEF Written
  <2> HIDE DEF patch
  <2>6. "status" \in DOMAIN patch
    BY DEF patch, StatusPatch
  <2>7. Updated(row[t], patch, DOMAIN patch) \in [status : Statuses, completed_at : Times]
        /\ Updated(row[t], patch, DOMAIN patch).status # "open"
    BY <2>2, <2>4, <2>6 DEF Updated
  <2>8. IsRow(t, Updated(row[t], patch, Written(patch, req[r].saw)))
    BY <1>1, <2>5, <2>7 DEF IsRow
  <2>9. DOMAIN patch \subseteq DOMAIN row[t]
    BY <2>2, <2>4
  <2> QED BY <1>1, <1>3, <2>5, <2>8, <2>9, Kinds, UpdateServes DEF Changes, Plain, patch
<1> QED BY <1>2, <1>3 DEF SetTaskStatus

LEMMA MarkReadServes ==
  ASSUME Inv, Granted, NEW r \in Requests, MarkNotificationRead(r)
  PROVE  Serves
<1> DEFINE n     == req[r].on
           patch == [read_at |-> "stamped"]
<1>1. Looked(r) /\ n \in Notices /\ req[r].op = "mark_notification_read"
  BY ServingLooked DEF MarkNotificationRead, Fits
<1>2. CASE Refuse(r)
  BY <1>2, NothingServes DEF Refuse
<1>3. CASE Update(r, patch)
  <2>1. IsRow(n, row[n]) /\ IsRow(n, req[r].saw) /\ Follows(n, req[r].saw, row[n])
        /\ req[r].saw # Absent
    BY <1>1, Found, Kinds DEF Changes, Rows, DeskRows
  <2>2. /\ row[n] \in [user : Members, read_at : {"never", "stamped"}]
        /\ req[r].saw \in [user : Members, read_at : {"never", "stamped"}]
    BY <1>1, <2>1, Kinds DEF IsRow, LookupsOf
  <2>3. req[r].saw.read_at = "stamped" => row[n].read_at = "stamped"
    BY <1>1, <2>1 DEF Follows
  <2>4. \A c \in DOMAIN patch \ Written(patch, req[r].saw) : row[n][c] = patch[c]
    BY <2>2, <2>3 DEF Written
  <2>5. Updated(row[n], patch, Written(patch, req[r].saw))
          \in [user : Members, read_at : {"never", "stamped"}]
    BY <2>2 DEF Updated, Written
  <2>6. IsRow(n, Updated(row[n], patch, Written(patch, req[r].saw)))
    BY <1>1, <2>5 DEF IsRow
  <2> QED BY <1>1, <1>3, <2>2, <2>4, <2>6, UpdateServes DEF Changes, Plain
<1> QED BY <1>2, <1>3 DEF MarkNotificationRead

LEMMA NewLookupIsRow ==
  ASSUME NEW y \in Lookups, NEW name \in Names
  PROVE  IsRow(y, [c \in LookupColumns(y) |-> IF c = "name" THEN name ELSE "yes"])
<1>0. PICK v : v = [c \in LookupColumns(y) |-> IF c = "name" THEN name ELSE "yes"]
  OBVIOUS
<1>1. TableOf[y] \in {"queue", "category", "tag"}
  BY DeskConstants
<1>2. CASE TableOf[y] = "tag"
  <2>1. LookupColumns(y) = {"name"}
    BY <1>2 DEF LookupColumns, TagColumns
  <2>2. v \in [name : Names]
    BY <1>0, <2>1
  <2>3. y \in LookupsOf("tag")
    BY <1>2 DEF LookupsOf
  <2> QED BY <1>0, <2>2, <2>3 DEF IsRow
<1>3. CASE TableOf[y] # "tag"
  <2>1. LookupColumns(y) = {"name", "is_active"}
    BY <1>1, <1>3 DEF LookupColumns, QueueColumns, CategoryColumns
  <2>2. v \in [name : Names, is_active : {"yes", "no"}]
    BY <1>0, <2>1
  <2>3. y \in LookupsOf("queue") \cup LookupsOf("category")
    BY <1>1, <1>3 DEF LookupsOf
  <2> QED BY <1>0, <2>2, <2>3 DEF IsRow
<1> QED BY <1>2, <1>3

LEMMA LookupServes ==
  ASSUME Inv, Granted, NEW r \in Requests,
         \/ CreateQueue(r) \/ UpdateQueue(r) \/ CreateCategory(r)
         \/ UpdateCategory(r) \/ CreateTag(r)
  PROVE  Serves
<1> DEFINE x   == req[r].on
           ask == req[r].ask
           YesNo == {"yes", "no"}
<1>1. Looked(r)
  BY ServingLooked
  DEF CreateQueue, UpdateQueue, CreateCategory, UpdateCategory, CreateTag
<1>2. CASE CreateQueue(r) \/ CreateCategory(r) \/ CreateTag(r)
  <2>0. PICK y, name : y = req[r].on /\ name = req[r].ask
    OBVIOUS
  <2>1. y \in Lookups /\ name \in Names /\ CreateLookup(r)
    BY <1>2, <2>0, ServingLooked DEF CreateQueue, CreateCategory, CreateTag, Fits
  <2>2. CASE Fail(r)
    BY <2>2, NothingServes DEF Fail
  <2>3. CASE Insert(r, [c \in LookupColumns(y) |-> IF c = "name" THEN name ELSE "yes"])
    <3>0. PICK v : v = [c \in LookupColumns(y) |-> IF c = "name" THEN name ELSE "yes"]
      OBVIOUS
    <3>1. IsRow(y, v)
      BY <2>1, <3>0, NewLookupIsRow
    <3> QED BY <1>1, <2>0, <2>1, <2>3, <3>0, <3>1, InsertServes
  <2> QED BY <2>0, <2>1, <2>2, <2>3 DEF CreateLookup
<1>3. CASE UpdateQueue(r) \/ UpdateCategory(r)
  <2>1. /\ x \in LookupsOf("queue") \cup LookupsOf("category") /\ ask \in LookupPatches
        /\ UpdateLookup(r) /\ req[r].op \in Changes
    BY <1>3, ServingLooked DEF UpdateQueue, UpdateCategory, Fits, Changes
  <2>2. x \in Lookups /\ TableOf[x] # "tag"
    BY <2>1 DEF LookupsOf
  <2>3. CASE Fail(r)
    BY <2>3, NothingServes DEF Fail
  <2>4. CASE Update(r, ask)
    <3>1. IsRow(x, row[x])
      BY <1>1, <2>1, <2>2, Found, Kinds DEF Rows, DeskRows
    <3>2. row[x] \in [name : Names, is_active : YesNo]
      BY <2>2, <3>1, Kinds DEF IsRow, LookupsOf
    <3>3. DOMAIN ask \subseteq {"name", "is_active"}
          /\ ("name" \in DOMAIN ask => ask["name"] \in Names)
          /\ ("is_active" \in DOMAIN ask => ask["is_active"] \in YesNo)
      BY <2>1 DEF LookupPatches
    <3>4. Updated(row[x], ask, Written(ask, req[r].saw)) \in [name : Names, is_active : YesNo]
      BY <3>2, <3>3 DEF Updated, Written
    <3>5. IsRow(x, Updated(row[x], ask, Written(ask, req[r].saw)))
      BY <2>1, <3>4 DEF IsRow
    <3> QED BY <1>1, <2>1, <2>2, <2>4, <3>2, <3>3, <3>5, Kinds, UpdateServes DEF Plain
  <2> QED BY <2>1, <2>3, <2>4 DEF UpdateLookup
<1> QED BY <1>2, <1>3

LEMMA ClientServes ==
  ASSUME Inv, Granted, NEW r \in Requests,
         \/ CreateOrganization(r) \/ UpdateOrganization(r)
         \/ CreateClient(r) \/ UpdateClient(r)
  PROVE  Serves
<1> DEFINE x   == req[r].on
           ask == req[r].ask
           YesNo == {"yes", "no"}
<1>1. Looked(r)
  BY ServingLooked DEF CreateOrganization, UpdateOrganization, CreateClient, UpdateClient
<1>2. CASE Refuse(r)
  BY <1>2, NothingServes DEF Refuse
<1>3. CASE CreateOrganization(r)
  <2>1. x \in Organizations /\ Insert(r, [is_active |-> "yes"])
    BY <1>3, ServingLooked DEF CreateOrganization, Fits
  <2>2. IsRow(x, [is_active |-> "yes"])
    BY <2>1 DEF IsRow
  <2> QED BY <1>1, <2>1, <2>2, InsertServes
<1>4. CASE CreateClient(r) /\ ~Refuse(r)
  <2> DEFINE v == [is_active |-> "yes", organization |-> ask]
  <2>1. x \in Clients /\ ask \in Organizations \cup {None} /\ Insert(r, v)
    BY <1>4, ServingLooked DEF CreateClient, Fits
  <2>2. IsRow(x, v)
    BY <2>1 DEF IsRow
  <2> QED BY <1>1, <2>1, <2>2, InsertServes
<1>5. CASE UpdateOrganization(r)
  <2>1. /\ x \in Organizations /\ ask \in OrganizationPatches
        /\ Update(r, ask) /\ req[r].op \in Changes
    BY <1>5, ServingLooked DEF UpdateOrganization, Fits, Changes
  <2>2. row[x] \in [is_active : YesNo]
    BY <1>1, <2>1, Found, Kinds DEF Rows, DeskRows, IsRow, LookupsOf
  <2>3. DOMAIN ask = {"is_active"} /\ ask["is_active"] \in YesNo
    BY <2>1 DEF OrganizationPatches
  <2>4. Updated(row[x], ask, Written(ask, req[r].saw)) \in [is_active : YesNo]
    BY <2>2, <2>3 DEF Updated, Written
  <2>5. IsRow(x, Updated(row[x], ask, Written(ask, req[r].saw)))
    BY <2>1, <2>4 DEF IsRow
  <2> QED BY <1>1, <2>1, <2>2, <2>3, <2>5, Kinds, UpdateServes DEF Plain
<1>6. CASE UpdateClient(r) /\ ~Refuse(r)
  <2>1. /\ x \in Clients /\ ask \in ClientPatches
        /\ Update(r, ask) /\ req[r].op \in Changes
    BY <1>6, ServingLooked DEF UpdateClient, Fits, Changes
  <2>2. row[x] \in [is_active : YesNo, organization : Organizations \cup {None}]
    BY <1>1, <2>1, Found, Kinds DEF Rows, DeskRows, IsRow, LookupsOf
  <2>3. DOMAIN ask \subseteq {"organization", "is_active"}
        /\ ("organization" \in DOMAIN ask => ask["organization"] \in Organizations)
        /\ ("is_active" \in DOMAIN ask => ask["is_active"] \in YesNo)
    BY <2>1 DEF ClientPatches
  <2>4. Updated(row[x], ask, Written(ask, req[r].saw))
          \in [is_active : YesNo, organization : Organizations \cup {None}]
    BY <2>2, <2>3 DEF Updated, Written
  <2>5. IsRow(x, Updated(row[x], ask, Written(ask, req[r].saw)))
    BY <2>1, <2>4 DEF IsRow
  <2> QED BY <1>1, <2>1, <2>2, <2>3, <2>5, Kinds, UpdateServes DEF Plain
<1> QED BY <1>2, <1>3, <1>4, <1>5, <1>6

\* A row of which the columns are not told apart.
LEMMA WholeRow ==
  ASSUME Inv, Granted, NEW o \in Rows \ Notices, NEW v, NEW w,
         row' = [row EXCEPT ![o] = v], granted' = [granted EXCEPT ![o] = w],
         \A p, c : p # o => (<<p, c>> \in unwritten' <=> <<p, c>> \in unwritten),
         RowGranted(o)', Follows(o, row[o], v)
  PROVE  Serves
<1>1. DOMAIN row = Rows /\ DOMAIN granted = Rows
  BY DEF Inv, Granted, Rows
<1>2. \A p \in Rows \ {o} : Untouched(p)
  BY <1>1 DEF Untouched
<1>3. row'[o] = v /\ DOMAIN row' = Rows /\ DOMAIN granted' = Rows
  BY <1>1
<1> QED BY <1>2, <1>3, OneRow

LEMMA TagServes ==
  ASSUME Inv, Granted, NEW r \in Requests, AddTag(r) \/ RemoveTag(r)
  PROVE  Serves
<1>0. PICK p : p = req[r].on
  OBVIOUS
<1>1. Looked(r) /\ p \in Pairs /\ p \in Rows /\ p \notin Notices /\ p # LinkTable
  BY <1>0, ServingLooked, Kinds DEF AddTag, RemoveTag, Fits, Rows, DeskRows
<1>2. DOMAIN row = Rows /\ DOMAIN granted = Rows /\ RowGranted(p)
  BY <1>1 DEF Inv, Granted, Rows
<1>3. CASE Refuse(r) \/ Fail(r)
  BY <1>3, NothingServes DEF Refuse, Fail
<1>4. p \notin Tasks \cup Lookups \cup Organizations \cup Clients \cup Contacts \cup Tickets
  BY <1>1, Kinds
<1>5. r # Absent
  BY <1>1, StartsAreRows DEF IsRow, Rows
<1>6. CASE /\ req[r].saw # Absent
           /\ Commit(r, row)
           /\ granted' = [granted EXCEPT ![p] = "tagged"]
           /\ unwritten' = unwritten \cup (IF req[r].late THEN {<<p, "row">>} ELSE {})
  <2>1. row' = row /\ granted'[p] = "tagged" /\ DOMAIN granted' = Rows
    BY <1>1, <1>2, <1>6 DEF Commit
  <2>2. ~req[r].late => row[p] # Absent
    BY <1>0, <1>1, <1>6 DEF Inv, Copies
  <2>3. RowGranted(p)'
    BY <1>1, <1>2, <1>4, <1>6, <2>1, <2>2 DEF RowGranted, Plain, Shape
  <2>4. Follows(p, row[p], row'[p])
    BY <2>1 DEF Follows
  <2>5. \A q \in Rows \ {p} : Untouched(q)
    BY <1>2, <1>6, <2>1 DEF Untouched
  <2> QED BY <1>1, <1>2, <2>1, <2>3, <2>4, <2>5, OneRow
<1>7. CASE /\ Commit(r, [row EXCEPT ![p] = r])
           /\ granted' = [granted EXCEPT ![p] = "tagged"]
           /\ unwritten' = unwritten \ {<<p, "row">>}
  <2>1. row' = [row EXCEPT ![p] = r] /\ row'[p] = r /\ granted'[p] = "tagged"
    BY <1>1, <1>2, <1>7 DEF Commit
  <2>2. RowGranted(p)'
    BY <1>1, <1>4, <1>5, <2>1 DEF RowGranted, Plain, Shape, IsRow
  <2>3. Follows(p, row[p], r)
    BY <1>1, <1>4 DEF Follows
  <2>4. \A q, c : q # p => (<<q, c>> \in unwritten' <=> <<q, c>> \in unwritten)
    BY <1>7
  <2> QED BY <1>1, <1>7, <2>1, <2>2, <2>3, <2>4, WholeRow
<1>8. CASE RemoveTag(r)
  <2> DEFINE saw   == req[r].saw
             wrote == saw # Absent /\ row[p] = saw
             v     == Deleted(row[p], saw)
  <2>1. /\ Commit(r, [row EXCEPT ![p] = Deleted(@, saw)])
        /\ granted' = [granted EXCEPT ![p] = Absent]
        /\ unwritten' = IF wrote THEN unwritten \ {<<p, "row">>}
                        ELSE unwritten \cup (IF req[r].late THEN {<<p, "row">>} ELSE {})
    BY <1>0, <1>8 DEF RemoveTag
  <2>2. row' = [row EXCEPT ![p] = v] /\ row'[p] = v /\ granted'[p] = Absent
    BY <1>1, <1>2, <2>1 DEF Commit
  <2>3. v = Absent \/ v = row[p]
    BY DEF Deleted
  <2>4. wrote \/ ~req[r].late => v = Absent
    BY <1>0, <1>1 DEF Inv, Copies, Deleted
  <2>5. Shape(p, v) /\ "tagged" # Absent
    BY <1>1, <1>2, <2>3, DeskConstants DEF Shape, RowGranted
  <2> HIDE DEF v, wrote
  <2>6. v # Absent => <<p, "row">> \in unwritten'
    BY <2>1, <2>4
  <2>7. RowGranted(p)'
    BY <1>1, <1>4, <2>2, <2>5, <2>6 DEF RowGranted, Plain
  <2>8. Follows(p, row[p], v)
    BY <1>1, <1>4 DEF Follows
  <2>9. \A q, c : q # p => (<<q, c>> \in unwritten' <=> <<q, c>> \in unwritten)
    BY <2>1
  <2> QED BY <1>1, <2>1, <2>2, <2>7, <2>8, <2>9, WholeRow
<1> QED BY <1>0, <1>3, <1>6, <1>7, <1>8 DEF AddTag

LEMMA ContactServes ==
  ASSUME Inv, Granted, NEW r \in Requests, AddContact(r) \/ DeleteContact(r)
  PROVE  Serves
<1>0. PICK x : x = req[r].on
  OBVIOUS
<1>1. Looked(r) /\ x \in Contacts /\ x \in Rows
  BY <1>0, ServingLooked DEF AddContact, DeleteContact, Fits, Rows, DeskRows
<1>2. CASE Refuse(r)
  BY <1>2, NothingServes DEF Refuse
<1>3. CASE Insert(r, "kept")
  <2>1. IsRow(x, "kept")
    BY <1>1 DEF IsRow
  <2> QED BY <1>0, <1>1, <1>3, <2>1, InsertServes
<1>4. CASE /\ req[r].saw # Absent
           /\ Commit(r, [row EXCEPT ![x] = Deleted(@, req[r].saw)])
           /\ granted' = [granted EXCEPT ![x] = "deleted"]
           /\ UNCHANGED unwritten
  <2>1. DOMAIN row = Rows /\ DOMAIN granted = Rows /\ Shape(x, row[x]) /\ Shape(x, req[r].saw)
    BY <1>0, <1>1 DEF Inv, Granted, Rows, RowGranted, CopyHolds
  <2>2. x \notin Tasks \cup Notices \cup Lookups \cup Pairs \cup Organizations \cup Clients
               \cup Tickets \cup {LinkTable}
    BY <1>1, Kinds
  <2>3. row[x] \in {Absent, "kept"} /\ req[r].saw = "kept"
    BY <1>4, <2>1, <2>2 DEF Shape, IsRow, LookupsOf
  <2>4. row' = [row EXCEPT ![x] = Absent] /\ row'[x] = Absent /\ granted'[x] = "deleted"
    BY <1>1, <1>4, <2>1, <2>3 DEF Commit, Deleted
  <2>5. RowGranted(x)'
    BY <1>1, <2>2, <2>4 DEF RowGranted, Plain, Shape
  <2>6. Follows(x, row[x], Absent)
    BY <1>1, <2>2 DEF Follows
  <2> QED BY <1>1, <1>4, <2>2, <2>4, <2>5, <2>6, WholeRow
<1> QED BY <1>0, <1>2, <1>3, <1>4 DEF AddContact, DeleteContact

LEMMA LinkServes ==
  ASSUME Inv, Granted, NEW r \in Requests, LinkClientUser(r)
  PROVE  Serves
<1> DEFINE link == req[r].ask
<1>1. Looked(r) /\ link \in [client : Clients, user : Users \cup {None}] /\ LinkTable \in Rows
  BY ServingLooked, Kinds DEF LinkClientUser, Fits, Rows, PortalRows
<1>2. CASE Refuse(r) \/ Fail(r)
  BY <1>2, NothingServes DEF Refuse, Fail
<1>3. CASE Commit(r, row) /\ UNCHANGED <<granted, unwritten>>
  BY <1>3, NothingServes DEF Commit
<1>4. CASE /\ link.user \in Users
           /\ Commit(r, [row EXCEPT ![LinkTable] = @ \cup {link}])
           /\ granted' = [granted EXCEPT ![LinkTable] = @ \cup {link}]
           /\ UNCHANGED unwritten
  <2>1. DOMAIN row = Rows /\ DOMAIN granted = Rows /\ RowGranted(LinkTable)
    BY <1>1 DEF Inv, Granted, Rows
  <2>2. link \in LinksOf(Clients)
    BY <1>1, <1>4 DEF LinksOf
  <2>3. row[LinkTable] \in SUBSET LinksOf(Clients) /\ granted[LinkTable] = row[LinkTable]
    BY <2>1, Kinds DEF RowGranted, Shape, IsRow, LookupsOf
  <2> DEFINE v == row[LinkTable] \cup {link}
  <2>4. v \in SUBSET LinksOf(Clients)
    BY <2>2, <2>3
  <2>5. /\ row' = [row EXCEPT ![LinkTable] = v] /\ granted' = [granted EXCEPT ![LinkTable] = v]
        /\ row'[LinkTable] = v /\ granted'[LinkTable] = v
    BY <1>1, <1>4, <2>1, <2>3 DEF Commit
  <2> HIDE DEF v
  <2>6. RowGranted(LinkTable)'
    BY <2>4, <2>5, Kinds DEF RowGranted, Plain, Shape, IsRow
  <2>7. Follows(LinkTable, row[LinkTable], v)
    BY Kinds DEF Follows
  <2> QED BY <1>1, <1>4, <2>5, <2>6, <2>7, Kinds, WholeRow
<1> QED BY <1>2, <1>3, <1>4 DEF LinkClientUser
-----------------------------------------------------------------------------
\* Conversations and messages.

PostsOf(threads) == UNION {threads[i].posts : i \in DOMAIN threads}

IdsOf(threads) == {threads[i].id : i \in DOMAIN threads}

\* A set of positions has a first one.
LEMMA FirstExists ==
  ASSUME NEW S \in SUBSET Nat, S # {}
  PROVE  \E i \in S : \A j \in S : i <= j
<1>1. PICK i \in S : \A j \in S : ~(<<j, i>> \in OpToRel(<, Nat))
  BY NatLessThanWellFounded, WFMin
<1>2. \A j \in S : ~(j < i)
  BY <1>1 DEF OpToRel
<1> QED BY <1>2

\* What a message is posted to is a conversation of the copy.
LEMMA OldestIsThere ==
  ASSUME NEW threads \in Seq(Threads), OverWeb(threads) # {}
  PROVE  Oldest(threads).id \in IdsOf(threads)
<1>1. OverWeb(threads) \subseteq DOMAIN threads /\ DOMAIN threads \subseteq Nat
  BY DEF OverWeb
<1>2. PICK i \in OverWeb(threads) : \A j \in OverWeb(threads) : i <= j
  BY <1>1, FirstExists
<1>3. \E k \in OverWeb(threads) : Oldest(threads) = threads[k]
  <2> DEFINE k == CHOOSE k \in OverWeb(threads) : \A j \in OverWeb(threads) : k <= j
  <2>1. k \in OverWeb(threads)
    BY <1>2
  <2>2. Oldest(threads) = threads[k]
    BY DEF Oldest
  <2> QED BY <2>1, <2>2
<1> QED BY <1>1, <1>3 DEF IdsOf

\* A conversation inserted at k comes to stand there, and the ones behind it
\* move up.
LEMMA InsertedAt ==
  ASSUME NEW threads \in Seq(Threads), NEW thread \in Threads,
         NEW k \in 1 .. (Len(threads) + 1), NEW new, new = InsertAt(threads, k, thread)
  PROVE  /\ new \in Seq(Threads) /\ Len(new) = Len(threads) + 1
         /\ \A i \in 1 .. Len(new) :
              new[i] = IF i < k THEN threads[i] ELSE IF i = k THEN thread ELSE threads[i - 1]
<1> DEFINE pre  == SubSeq(threads, 1, k - 1)
           post == SubSeq(threads, k, Len(threads))
<1>2. k \in 1 .. (Len(threads) + 1) /\ Len(threads) \in Nat
  OBVIOUS
<1>3. /\ pre \in Seq(Threads) /\ Len(pre) = k - 1
      /\ \A i \in 1 .. (k - 1) : pre[i] = threads[i]
  BY <1>2
<1>4. /\ post \in Seq(Threads) /\ Len(post) = Len(threads) - k + 1
      /\ \A i \in 1 .. (Len(threads) - k + 1) : post[i] = threads[k + i - 1]
  BY <1>2
<1>5. new = (pre \o <<thread>>) \o post
  BY DEF InsertAt
<1> HIDE DEF pre, post
<1>6. new \in Seq(Threads) /\ Len(new) = Len(threads) + 1
  <2>1. <<thread>> \in Seq(Threads) /\ Len(<<thread>>) = 1
    OBVIOUS
  <2>2. pre \o <<thread>> \in Seq(Threads) /\ Len(pre \o <<thread>>) = k
    BY <1>2, <1>3, <2>1, ConcatProperties
  <2> QED BY <1>2, <1>4, <1>5, <2>2, ConcatProperties
<1>7. \A i \in 1 .. Len(new) :
        new[i] = IF i < k THEN threads[i] ELSE IF i = k THEN thread ELSE threads[i - 1]
  <2>1. <<thread>> \in Seq(Threads) /\ Len(<<thread>>) = 1 /\ <<thread>>[1] = thread
    OBVIOUS
  <2>2. /\ pre \o <<thread>> \in Seq(Threads) /\ Len(pre \o <<thread>>) = k
        /\ \A i \in 1 .. k : (pre \o <<thread>>)[i] = IF i < k THEN threads[i] ELSE thread
    BY <1>2, <1>3, <2>1, ConcatProperties
  <2>3. \A i \in 1 .. Len(new) :
          new[i] = IF i <= k THEN (pre \o <<thread>>)[i] ELSE post[i - k]
    BY <1>2, <1>4, <1>5, <1>6, <2>2, ConcatProperties
  <2> SUFFICES ASSUME NEW i \in 1 .. Len(new)
               PROVE  new[i] = IF i < k THEN threads[i]
                               ELSE IF i = k THEN thread ELSE threads[i - 1]
    OBVIOUS
  <2>4. k \in Nat /\ i \in Nat /\ Len(new) \in Nat
    BY <1>2, <1>6
  <2>5. CASE i <= k
    <3>1. i \in 1 .. k
      BY <2>4, <2>5
    <3>2. new[i] = (pre \o <<thread>>)[i]
      BY <2>3, <2>5
    <3>3. (pre \o <<thread>>)[i] = IF i < k THEN threads[i] ELSE thread
      BY <2>2, <3>1
    <3>4. i < k \/ i = k
      BY <2>4, <2>5
    <3> QED BY <3>2, <3>3, <3>4, Zenon
  <2>6. CASE i > k
    <3>1. /\ i - k \in 1 .. (Len(threads) - k + 1)
          /\ k + (i - k) - 1 = i - 1
      BY <1>2, <1>6, <2>4, <2>6
    <3>2. post[i - k] = threads[i - 1]
      BY <1>4, <3>1
    <3>3. new[i] = post[i - k]
      BY <2>3, <2>4, <2>6
    <3>4. ~(i < k) /\ i # k
      BY <2>4, <2>6
    <3> QED BY <3>2, <3>3, <3>4, Zenon
  <2> QED BY <2>4, <2>5, <2>6
<1> QED BY <1>6, <1>7

\* Inserting a conversation keeps the others and their messages.
LEMMA InsertedKeeps ==
  ASSUME NEW threads \in Seq(Threads), NEW thread \in Threads, NEW seen \in Seq(Threads),
         NEW new \in Inserted(threads, thread, seen)
  PROVE  /\ new \in Seq(Threads)
         /\ IdsOf(new) = IdsOf(threads) \cup {thread.id}
         /\ PostsOf(new) = PostsOf(threads) \cup thread.posts
<1>1. PICK k \in (Len(seen) + 1) .. (Len(threads) + 1) : new = InsertAt(threads, k, thread)
  BY DEF Inserted
<1>2. k \in 1 .. (Len(threads) + 1) /\ Len(threads) \in Nat
  OBVIOUS
<1>6. new \in Seq(Threads) /\ Len(new) = Len(threads) + 1
  BY <1>1, <1>2, InsertedAt
<1>7. \A i \in 1 .. Len(new) :
        new[i] = IF i < k THEN threads[i] ELSE IF i = k THEN thread ELSE threads[i - 1]
  BY <1>1, <1>2, InsertedAt
<1>8. \A i \in DOMAIN new : new[i] = thread \/ \E j \in DOMAIN threads : new[i] = threads[j]
  <2>1. DOMAIN threads = 1 .. Len(threads) /\ DOMAIN new = 1 .. (Len(threads) + 1)
    BY <1>2, <1>6
  <2> SUFFICES ASSUME NEW i \in 1 .. (Len(threads) + 1)
               PROVE  new[i] = thread \/ \E j \in 1 .. Len(threads) : new[i] = threads[j]
    BY <2>1, Zenon
  <2>2. new[i] = IF i < k THEN threads[i] ELSE IF i = k THEN thread ELSE threads[i - 1]
    BY <1>6, <1>7
  <2>3. CASE i < k
    <3>1. i \in 1 .. Len(threads) /\ new[i] = threads[i]
      BY <1>2, <2>2, <2>3
    <3> QED BY <3>1
  <2>4. CASE i = k
    BY <2>2, <2>4
  <2>5. CASE i > k
    <3>1. i - 1 \in 1 .. Len(threads) /\ new[i] = threads[i - 1]
      BY <1>2, <2>2, <2>5
    <3> QED BY <3>1
  <2> QED BY <1>2, <2>3, <2>4, <2>5
<1>9. /\ \E i \in DOMAIN new : new[i] = thread
      /\ \A j \in DOMAIN threads : \E i \in DOMAIN new : new[i] = threads[j]
  <2>1. k \in DOMAIN new /\ new[k] = thread
    BY <1>2, <1>6, <1>7
  <2>2. ASSUME NEW j \in DOMAIN threads PROVE \E i \in DOMAIN new : new[i] = threads[j]
    <3>1. CASE j < k
      <4>1. j \in DOMAIN new /\ new[j] = threads[j]
        BY <1>2, <1>6, <1>7, <3>1
      <4> QED BY <4>1
    <3>2. CASE j >= k
      <4>1. j + 1 \in DOMAIN new /\ new[j + 1] = threads[j]
        BY <1>2, <1>6, <1>7, <3>2
      <4> QED BY <4>1
    <3> QED BY <1>2, <3>1, <3>2
  <2> QED BY <2>1, <2>2
<1>10. IdsOf(new) = IdsOf(threads) \cup {thread.id}
  BY <1>8, <1>9 DEF IdsOf
<1>11. PostsOf(new) = PostsOf(threads) \cup thread.posts
  <2>1. ASSUME NEW m \in PostsOf(new) PROVE m \in PostsOf(threads) \cup thread.posts
    <3>1. PICK i \in DOMAIN new : m \in new[i].posts
      BY <2>1 DEF PostsOf
    <3> QED BY <1>8, <3>1 DEF PostsOf
  <2>2. ASSUME NEW m \in PostsOf(threads) PROVE m \in PostsOf(new)
    <3>1. PICK j \in DOMAIN threads : m \in threads[j].posts
      BY <2>2 DEF PostsOf
    <3> QED BY <1>9, <3>1 DEF PostsOf
  <2>3. ASSUME NEW m \in thread.posts PROVE m \in PostsOf(new)
    BY <1>9, <2>3 DEF PostsOf
  <2> QED BY <2>1, <2>2, <2>3
<1> QED BY <1>6, <1>10, <1>11

\* Posting adds one message to a conversation that is there.
LEMMA PostedKeeps ==
  ASSUME NEW threads \in Seq(Threads), NEW id \in IdsOf(threads), NEW r \in Requests
  PROVE  /\ Posted(threads, id, r) \in Seq(Threads)
         /\ IdsOf(Posted(threads, id, r)) = IdsOf(threads)
         /\ PostsOf(Posted(threads, id, r)) = PostsOf(threads) \cup {r}
<1>0. PICK new : new = Posted(threads, id, r)
  OBVIOUS
<1>1. DOMAIN new = DOMAIN threads
  BY <1>0 DEF Posted
<1>2. \A i \in DOMAIN threads : threads[i] \in Threads
  OBVIOUS
<1>3. ASSUME NEW i \in DOMAIN threads
      PROVE  /\ new[i] \in Threads /\ new[i].id = threads[i].id
             /\ new[i].posts = IF threads[i].id = id THEN threads[i].posts \cup {r}
                               ELSE threads[i].posts
  BY <1>0, <1>2 DEF Posted, Threads
<1>4. new \in Seq(Threads)
  <2>1. new = [i \in 1 .. Len(threads) |-> new[i]]
    BY <1>0 DEF Posted
  <2>2. Len(threads) \in Nat /\ \A i \in 1 .. Len(threads) : new[i] \in Threads
    BY <1>3, LenProperties
  <2> QED BY <2>1, <2>2, IsASeq
<1>5. IdsOf(new) = IdsOf(threads)
  BY <1>1, <1>3 DEF IdsOf
<1>6. PICK k \in DOMAIN threads : threads[k].id = id
  BY DEF IdsOf
<1>7. PostsOf(new) = PostsOf(threads) \cup {r}
  <2>1. ASSUME NEW m \in PostsOf(new) PROVE m \in PostsOf(threads) \cup {r}
    <3>1. PICK i \in DOMAIN threads : m \in new[i].posts
      BY <1>1, <2>1 DEF PostsOf
    <3> QED BY <1>3, <3>1 DEF PostsOf
  <2>2. ASSUME NEW m \in PostsOf(threads) PROVE m \in PostsOf(new)
    <3>1. PICK i \in DOMAIN threads : m \in threads[i].posts
      BY <2>2 DEF PostsOf
    <3> QED BY <1>1, <1>3, <3>1 DEF PostsOf
  <2>3. r \in PostsOf(new)
    BY <1>1, <1>3, <1>6 DEF PostsOf
  <2> QED BY <2>1, <2>2, <2>3
<1> QED BY <1>0, <1>4, <1>5, <1>7
\* Of all rows, this step grants row t alone, and grants it w.
Grants(t, w) ==
  DOMAIN granted' = Rows /\ granted'[t] = w /\ \A p \in Rows \ {t} : granted'[p] = granted[p]

LEMMA ExceptTells ==
  ASSUME Granted, NEW t \in Rows, NEW w, granted' = [granted EXCEPT ![t] = w]
  PROVE  Grants(t, w)
BY DEF Granted, Grants

LEMMA TicketRowServes ==
  ASSUME Inv, Granted, NEW t \in Tickets,
         NEW v \in [client : Clients, threads : Seq(Threads)],
         row' = [row EXCEPT ![t] = v], Grants(t, PostsOf(v.threads)),
         unwritten' = unwritten,
         row[t] # Absent => IdsOf(row[t].threads) \subseteq IdsOf(v.threads)
  PROVE  Serves
<1>1. t \in Rows /\ t # LinkTable
      /\ t \notin Tasks \cup Notices \cup Lookups \cup Pairs \cup Organizations
                  \cup Clients \cup Contacts
  BY Kinds DEF Rows, PortalRows
<1>2. DOMAIN row = Rows /\ DOMAIN granted = Rows
  BY DEF Inv, Granted, Rows
<1>3. row'[t] = v /\ granted'[t] = PostsOf(v.threads)
  BY <1>1, <1>2 DEF Grants
<1>4. IsRow(t, v) /\ v # Absent
  <2>1. IsRow(t, v)
    BY DEF IsRow
  <2> QED BY <1>1, <2>1, StartsAreRows DEF Rows
<1>5. RowGranted(t)'
  <2>1. ListMessages(t)' = granted'[t]
    BY <1>3 DEF ListMessages, PostsOf
  <2> QED BY <1>1, <1>3, <1>4, <2>1 DEF RowGranted, Plain, Shape
<1>6. Follows(t, row[t], v)
  BY <1>1, <1>4 DEF Follows, Ids, IdsOf
<1>7. \A p \in Rows \ {t} : Untouched(p)
  BY <1>2 DEF Untouched, Grants
<1>8. DOMAIN row' = Rows /\ DOMAIN granted' = Rows
  BY <1>2 DEF Grants
<1> QED BY <1>1, <1>3, <1>5, <1>6, <1>7, <1>8, OneRow

\* A ticket of which only the conversations change.
LEMMA ThreadsServe ==
  ASSUME Inv, Granted, NEW r \in Requests, NEW t \in Tickets, NEW threads \in Seq(Threads),
         row[t] # Absent, Commit(r, [row EXCEPT ![t].threads = threads]),
         Grants(t, PostsOf(threads)), unwritten' = unwritten,
         IdsOf(row[t].threads) \subseteq IdsOf(threads)
  PROVE  Serves
<1>1. t \in Rows
  BY DEF Rows, PortalRows
<1>2. row[t] \in [client : Clients, threads : Seq(Threads)]
  BY <1>1, Kinds DEF Granted, RowGranted, Shape, IsRow, LookupsOf
<1>3. PICK v : v = [row[t] EXCEPT !.threads = threads]
  OBVIOUS
<1>4. v \in [client : Clients, threads : Seq(Threads)] /\ v.threads = threads
  BY <1>2, <1>3
<1>5. row' = [row EXCEPT ![t] = v]
  BY <1>3 DEF Commit
<1> QED BY <1>4, <1>5, TicketRowServes

LEMMA TicketServes ==
  ASSUME Inv, Granted, NEW r \in Requests,
         CreateTicket(r) \/ OpenConversation(r) \/ Post(r) \/ AddMessage(r)
  PROVE  Serves
<1>0. PICK t, ask : t = req[r].on /\ ask = req[r].ask
  OBVIOUS
<1>1. Looked(r) /\ t \in Tickets /\ t \in Rows
  BY <1>0, ServingLooked
  DEF CreateTicket, OpenConversation, Post, AddMessage, Fits, Rows, PortalRows
<1>2. CASE Refuse(r)
  BY <1>2, NothingServes DEF Refuse
<1>3. CASE CreateTicket(r) /\ ~Refuse(r)
  <2>1. /\ ask \in LinksOf(Clients) /\ row[t] = Absent
        /\ Commit(r, [row EXCEPT ![t] = NewTicket(ask.client)])
        /\ granted' = [granted EXCEPT ![t] = {}] /\ unwritten' = unwritten
    BY <1>0, <1>3, ServingLooked DEF CreateTicket, Fits, Inv, Reserved, Creations
  <2>2. PICK v : v = NewTicket(ask.client)
    OBVIOUS
  <2>3. v \in [client : Clients, threads : Seq(Threads)] /\ v.threads = <<>>
    BY <2>1, <2>2 DEF NewTicket, LinksOf
  <2>4. PostsOf(v.threads) = {}
    BY <2>3 DEF PostsOf
  <2>5. row' = [row EXCEPT ![t] = v]
    BY <2>1, <2>2 DEF Commit
  <2> QED BY <1>1, <2>1, <2>3, <2>4, <2>5, ExceptTells, TicketRowServes
<1> DEFINE stored == row[t].threads
           seen   == req[r].saw.threads
<1>4. CASE /\ OpenConversation(r) \/ Post(r) \/ AddMessage(r)
           /\ ~Refuse(r)
  <2>1. req[r].op \in Changes
    BY <1>4, ServingLooked DEF OpenConversation, Post, AddMessage, Changes
  <2>2. /\ row[t] # Absent /\ IsRow(t, row[t]) /\ IsRow(t, req[r].saw)
        /\ req[r].saw # Absent /\ Follows(t, req[r].saw, row[t])
    BY <1>0, <1>1, <2>1, Found, Kinds
  <2>3. row[t] \in [client : Clients, threads : Seq(Threads)] /\ seen \in Seq(Threads)
    BY <1>1, <2>2, Kinds DEF IsRow, LookupsOf
  <2>4. stored \in Seq(Threads) /\ granted[t] = PostsOf(stored)
    BY <1>1, <2>2, <2>3 DEF Granted, RowGranted, ListMessages, PostsOf
  <2>5. IdsOf(seen) \subseteq IdsOf(stored)
    BY <1>1, <2>2 DEF Follows, Ids, IdsOf
  <2> HIDE DEF stored, seen
  <2>6. CASE OpenConversation(r)
    <3>1. PICK thread : thread = NewThread(r, ask, {})
      OBVIOUS
    <3>2. PICK threads : /\ threads \in Inserted(stored, thread, seen)
                         /\ Commit(r, [row EXCEPT ![t].threads = threads])
      BY <1>0, <2>6, <3>1 DEF OpenConversation, stored, seen
    <3>3. thread \in Threads /\ thread.posts = {}
      BY <1>0, <2>6, <3>1, ServingLooked DEF OpenConversation, Fits, NewThread, Threads
    <3>4. /\ threads \in Seq(Threads) /\ IdsOf(stored) \subseteq IdsOf(threads)
          /\ PostsOf(threads) = PostsOf(stored)
      <4>1. stored \in Seq(Threads) /\ seen \in Seq(Threads) /\ thread \in Threads
            /\ threads \in Inserted(stored, thread, seen)
        BY <2>3, <2>4, <3>2, <3>3
      <4>2. PostsOf(threads) = PostsOf(stored) \cup thread.posts
        BY <4>1, InsertedKeeps
      <4>3. IdsOf(stored) \subseteq IdsOf(threads)
        BY <4>1, InsertedKeeps
      <4>4. threads \in Seq(Threads)
        BY <4>1, InsertedKeeps
      <4> QED BY <3>3, <4>2, <4>3, <4>4
    <3>5. Grants(t, PostsOf(threads))
      BY <1>1, <2>4, <2>6, <3>4 DEF OpenConversation, Granted, Grants
    <3> QED BY <1>1, <2>2, <2>6, <3>2, <3>4, <3>5, ThreadsServe DEF OpenConversation, stored
  <2>7. CASE Post(r)
    <3>1. ask \in IdsOf(stored)
      BY <1>0, <1>1, <2>7, ServingLooked DEF Post, Granted, CopyHolds, Ids, IdsOf, stored
    <3>2. PICK threads : threads = Posted(stored, ask, r)
      OBVIOUS
    <3>3. /\ threads \in Seq(Threads) /\ IdsOf(stored) \subseteq IdsOf(threads)
          /\ PostsOf(threads) = PostsOf(stored) \cup {r}
      BY <2>4, <3>1, <3>2, PostedKeeps
    <3>4. /\ Commit(r, [row EXCEPT ![t].threads = threads])
          /\ granted' = [granted EXCEPT ![t] = PostsOf(threads)] /\ unwritten' = unwritten
      BY <1>0, <2>4, <2>7, <3>2, <3>3 DEF Post, stored
    <3> QED BY <1>1, <2>2, <3>3, <3>4, ExceptTells, ThreadsServe DEF stored
  <2>8. CASE AddMessage(r)
    <3>1. /\ granted' = [granted EXCEPT ![t] = PostsOf(stored) \cup {r}] /\ unwritten' = unwritten
          /\ \E threads \in IF OverWeb(seen) # {}
                            THEN {Posted(stored, Oldest(seen).id, r)}
                            ELSE Inserted(stored, NewThread(r, "web", {r}), seen) :
               Commit(r, [row EXCEPT ![t].threads = threads])
      BY <1>0, <1>4, <2>4, <2>8 DEF AddMessage, stored, seen
    <3>2. CASE OverWeb(seen) # {}
      <4>1. Oldest(seen).id \in IdsOf(stored)
        BY <2>3, <2>5, <3>2, OldestIsThere
      <4>2. PICK threads : /\ threads = Posted(stored, Oldest(seen).id, r)
                           /\ Commit(r, [row EXCEPT ![t].threads = threads])
        BY <3>1, <3>2
      <4>3. /\ threads \in Seq(Threads) /\ IdsOf(stored) \subseteq IdsOf(threads)
            /\ PostsOf(threads) = PostsOf(stored) \cup {r}
        BY <2>4, <4>1, <4>2, PostedKeeps
      <4> QED BY <1>1, <2>2, <3>1, <4>2, <4>3, ExceptTells, ThreadsServe DEF stored
    <3>3. CASE OverWeb(seen) = {}
      <4>1. PICK thread : thread = NewThread(r, "web", {r})
        OBVIOUS
      <4>2. PICK threads \in Inserted(stored, thread, seen) :
              Commit(r, [row EXCEPT ![t].threads = threads])
        BY <3>1, <3>3, <4>1
      <4>3. thread \in Threads /\ thread.posts = {r}
        BY <4>1 DEF NewThread, Threads, Channels
      <4>4. /\ threads \in Seq(Threads) /\ IdsOf(stored) \subseteq IdsOf(threads)
            /\ PostsOf(threads) = PostsOf(stored) \cup {r}
        BY <2>3, <2>4, <4>2, <4>3, InsertedKeeps
      <4> QED BY <1>1, <2>2, <3>1, <4>2, <4>4, ExceptTells, ThreadsServe DEF stored
    <3> QED BY <3>2, <3>3
  <2> QED BY <1>4, <2>6, <2>7, <2>8
<1> QED BY <1>2, <1>3, <1>4
-----------------------------------------------------------------------------
\* Every serving request, and every step.

LEMMA AllServe ==
  ASSUME Inv, Granted, NEW r \in Requests, DeskServe(r) \/ PortalServe(r)
  PROVE  Serves
BY CreateTaskServes, SetTaskStatusServes, MarkReadServes, LookupServes, TagServes, ClientServes,
   ContactServes, LinkServes, TicketServes
DEF DeskServe, PortalServe

LEMMA FitsRows ==
  ASSUME NEW op, NEW on, NEW ask, Fits(op, on, ask)
  PROVE  /\ on \in Rows
         /\ op = "create_message" => on \in Tickets
BY DEF Fits, Rows, DeskRows, PortalRows, LookupsOf

\* A request that changes a row has found it.
Finds(r) ==
  \E op, on, ask :
    /\ Look(r, op, on, ask)
    /\ Fits(op, on, ask)
    /\ op \in Changes => row[on] # Absent
    /\ op = "create_message" => ask \in Ids(row[on])

LEMMA AskFinds ==
  ASSUME NEW r \in Requests, DeskAsk(r) \/ PortalAsk(r)
  PROVE  Finds(r)
<1> USE DEF Finds, Fits, Changes
<1> USE DeskConstants, PortalConstants DEF LookupsOf
<1>1. CASE AskCreateTask(r) BY <1>1 DEF AskCreateTask
<1>2. CASE AskSetTaskStatus(r) BY <1>2 DEF AskSetTaskStatus
<1>3. CASE AskMarkRead(r) BY <1>3 DEF AskMarkRead
<1>4. CASE AskCreateQueue(r) BY <1>4 DEF AskCreateQueue
<1>5. CASE AskUpdateQueue(r) BY <1>5 DEF AskUpdateQueue
<1>6. CASE AskCreateCategory(r) BY <1>6 DEF AskCreateCategory
<1>7. CASE AskUpdateCategory(r) BY <1>7 DEF AskUpdateCategory
<1>8. CASE AskCreateTag(r) BY <1>8 DEF AskCreateTag
<1>9. CASE AskAddTag(r) BY <1>9 DEF AskAddTag
<1>10. CASE AskRemoveTag(r) BY <1>10 DEF AskRemoveTag
<1>11. CASE AskCreateOrganization(r) BY <1>11 DEF AskCreateOrganization
<1>12. CASE AskUpdateOrganization(r) BY <1>12 DEF AskUpdateOrganization
<1>13. CASE AskCreateClient(r) BY <1>13 DEF AskCreateClient
<1>14. CASE AskUpdateClient(r) BY <1>14 DEF AskUpdateClient
<1>15. CASE AskAddContact(r) BY <1>15 DEF AskAddContact
<1>16. CASE AskDeleteContact(r) BY <1>16 DEF AskDeleteContact
<1>17. CASE AskLinkClientUser(r) BY <1>17 DEF AskLinkClientUser
<1>18. CASE AskCreateTicket(r) BY <1>18 DEF AskCreateTicket
<1>19. CASE AskOpenConversation(r) BY <1>19 DEF AskOpenConversation
<1>20. CASE AskPost(r) BY <1>20 DEF AskPost, Ids
<1>21. CASE AskAddMessage(r) BY <1>21 DEF AskAddMessage
<1> QED
  BY <1>1, <1>2, <1>3, <1>4, <1>5, <1>6, <1>7, <1>8, <1>9, <1>10, <1>11, <1>12,
     <1>13, <1>14, <1>15, <1>16, <1>17, <1>18, <1>19, <1>20, <1>21
  DEF DeskAsk, PortalAsk

\* What follows a row that follows a copy follows the copy.
LEMMA FollowsOn ==
  ASSUME NEW o \in Rows, NEW u, NEW v, NEW w, Follows(o, u, v), Follows(o, v, w)
  PROVE  Follows(o, u, w)
BY Kinds DEF Follows

LEMMA AskKeepsGranted ==
  ASSUME Inv, Granted, NEW r \in Requests, Finds(r)
  PROVE  Granted'
<1>1. PICK op, on, ask :
        /\ Look(r, op, on, ask)
        /\ Fits(op, on, ask)
        /\ op \in Changes => row[on] # Absent
        /\ op = "create_message" => ask \in Ids(row[on])
  BY DEF Finds
<1> DEFINE q == [at |-> "looked", op |-> op, on |-> on, ask |-> ask,
                 saw |-> row[on], late |-> FALSE]
<1>2. row' = row /\ granted' = granted /\ unwritten' = unwritten
  BY <1>1 DEF Look
<1>3. \A s \in Requests : req'[s] = IF s = r THEN q ELSE req[s]
  BY <1>1 DEF Look, Inv
<1>4. Serves
  BY <1>2, NothingServes
<1>5. on \in Rows /\ Shape(on, row[on])
  BY <1>1, FitsRows DEF Granted, RowGranted
<1>6. ASSUME NEW s \in Requests
      PROVE  /\ req'[s].at \in {"unmade", "looked", "answered", "refused", "failed"}
             /\ req'[s].late \in BOOLEAN
             /\ ~Looked(s)' => req'[s] = Settled(req'[s].at)
             /\ CopyHolds(s)'
  <2>1. CASE s = r
    <3>1. Follows(on, row[on], row[on])
      BY DEF Follows
    <3>2. /\ req'[s].at = "looked" /\ req'[s].op = op /\ req'[s].on = on
          /\ req'[s].ask = ask /\ req'[s].saw = row[on] /\ req'[s].late = FALSE
      BY <1>3, <2>1
    <3>3. CopyHolds(s)'
      BY <1>1, <1>2, <1>5, <3>1, <3>2 DEF CopyHolds
    <3> QED BY <3>2, <3>3 DEF Looked
  <2>2. CASE s # r
    BY <1>2, <1>3, <2>2 DEF Granted, CopyHolds, Looked
  <2> QED BY <2>1, <2>2
<1> QED BY <1>4, <1>6 DEF Granted, Serves

LEMMA ServeKeepsGranted ==
  ASSUME Inv, Granted, NEW r \in Requests, Serves, Ends(r) \/ Commits(r)
  PROVE  Granted'
<1>1. PICK at \in {"refused", "failed", "answered"} : req'[r] = Settled(at)
  BY DEF Ends, Commits, Commit, Inv
<1>2. ASSUME NEW s \in Requests \ {r}
      PROVE  req'[s] = req[s] \/ (Looked(s) /\ req'[s] = [req[s] EXCEPT !.late = TRUE])
  BY DEF Ends, Commits, Commit, Inv, Looked
<1>3. Settled(at).at = at /\ Settled(at).late = FALSE
  BY DEF Settled, Unmade
<1>4. ASSUME NEW s \in Requests
      PROVE  /\ req'[s].at \in {"unmade", "looked", "answered", "refused", "failed"}
             /\ req'[s].late \in BOOLEAN
             /\ ~Looked(s)' => req'[s] = Settled(req'[s].at)
             /\ CopyHolds(s)'
  <2>1. CASE s = r
    BY <1>1, <1>3, <2>1 DEF Looked, CopyHolds
  <2>2. CASE s # r
    <3>1. /\ req'[s].at = req[s].at /\ req'[s].op = req[s].op /\ req'[s].on = req[s].on
          /\ req'[s].ask = req[s].ask /\ req'[s].saw = req[s].saw
          /\ req'[s].late \in BOOLEAN
      <4>1. CASE req'[s] = req[s]
        BY <4>1 DEF Granted
      <4>2. CASE req'[s] = [req[s] EXCEPT !.late = TRUE]
        <5>1. Record(req[s])
          BY DEF Inv
        <5> QED BY <4>2, <5>1 DEF Record
      <4> QED BY <1>2, <2>2, <4>1, <4>2
    <3>2. ~Looked(s)' => req'[s] = Settled(req'[s].at)
      BY <1>2, <2>2, <3>1 DEF Looked, Granted
    <3>3. CopyHolds(s)'
      <4>1. SUFFICES ASSUME Looked(s) PROVE CopyHolds(s)'
        BY <3>1 DEF CopyHolds, Looked
      <4>2. PICK o, saw : o = req[s].on /\ saw = req[s].saw
        OBVIOUS
      <4>3. o \in Rows /\ (req[s].op = "create_message" => o \in Tickets)
        BY <4>1, <4>2, FitsRows DEF Inv
      <4>4. /\ Shape(o, saw) /\ Follows(o, saw, row[o]) /\ Follows(o, row[o], row'[o])
            /\ req[s].op \in Changes => saw # Absent
            /\ req[s].op = "create_message" => req[s].ask \in Ids(row[o])
        BY <4>1, <4>2, <4>3 DEF Granted, CopyHolds, Serves
      <4>5. Follows(o, saw, row'[o])
        BY <4>3, <4>4, FollowsOn
      <4>6. req[s].op = "create_message" => req[s].ask \in Ids(row'[o])
        BY <4>3, <4>4, Kinds DEF Follows, Changes
      <4> QED BY <3>1, <4>2, <4>4, <4>5, <4>6 DEF CopyHolds
    <3> QED BY <3>1, <3>2, <3>3 DEF Granted
  <2> QED BY <2>1, <2>2
<1> QED BY <1>4 DEF Granted, Serves

LEMMA InitGranted == Init => Granted
<1> SUFFICES ASSUME Init PROVE Granted
  OBVIOUS
<1>1. granted = [o \in Rows |-> InitiallyGranted(o, row[o])] /\ row \in Starts
  BY DEF Init, Rows
<1>2. ASSUME NEW o \in Rows PROVE RowGranted(o)
  <2>1. /\ Shape(o, row[o]) /\ (o \in Tasks /\ row[o] = Absent => row[NoticeOf[o]] = Absent)
        /\ o # LinkTable => ~IsRow(o, Absent)
    BY <1>1, StartsAreRows DEF Rows
  <2>2. granted[o] = InitiallyGranted(o, row[o])
    BY <1>1
  <2>3. o \in Tasks \cup Notices \cup Plain \cup {LinkTable} => granted[o] = row[o]
    BY <2>2, Kinds DEF InitiallyGranted, Plain
  <2>4. o \in Pairs => (row[o] # Absent <=> granted[o] = "tagged")
    BY <2>2, DeskConstants DEF InitiallyGranted
  <2>5. o \in Contacts => (row[o] # Absent <=> granted[o] = "kept")
    BY <2>1, <2>2, Kinds DEF InitiallyGranted, Shape, IsRow, LookupsOf
  <2>6. o \in Tickets /\ row[o] # Absent => ListMessages(o) = granted[o]
    BY <2>2, Kinds DEF InitiallyGranted, ListMessages
  <2> QED BY <2>1, <2>3, <2>4, <2>5, <2>6 DEF RowGranted, Plain
<1>3. ASSUME NEW r \in Requests
      PROVE  /\ req[r].at = "unmade" /\ req[r].late = FALSE
             /\ req[r] = Settled("unmade")
  BY DEF Init, Settled, Unmade
<1> QED BY <1>1, <1>2, <1>3 DEF Granted, CopyHolds, Looked

LEMMA StepKeepsGranted == Inv /\ Granted /\ [Next]_vars => Granted'
<1> SUFFICES ASSUME Inv, Granted, [Next]_vars PROVE Granted'
  OBVIOUS
<1>1. CASE UNCHANGED vars
  <2>1. Serves
    BY <1>1, NothingServes DEF vars
  <2> QED BY <1>1, <2>1 DEF vars, Serves, Granted, CopyHolds, Looked
<1>2. ASSUME NEW r \in Requests, DeskAsk(r) \/ PortalAsk(r) PROVE Granted'
  BY <1>2, AskFinds, AskKeepsGranted
<1>3. ASSUME NEW r \in Requests, DeskServe(r) \/ PortalServe(r) PROVE Granted'
  BY <1>3, AllServe, ServeEnds, ServeKeepsGranted
<1> QED BY <1>1, <1>2, <1>3 DEF Next

LEMMA AlwaysGranted == Spec => [](Inv /\ Granted)
<1>1. Inv /\ Granted /\ [Next]_vars => (Inv /\ Granted)'
  BY StepKeepsInv, StepKeepsGranted
<1> QED BY <1>1, InitInv, InitGranted, PTL DEF Spec

\* Every row has the shape of its table, and every copy a request holds has the
\* shape of its row, whatever requests of the service desk and the portal overlap.
THEOREM RowsKeepTheirShape == Spec => []TypeOK
<1>1. Inv /\ Granted => TypeOK
  BY FitsRows DEF Inv, Granted, TypeOK, RowGranted, CopyHolds, Looked, Rows
<1> QED BY <1>1, AlwaysGranted, PTL

\* No update is lost: a stored column is as the last of the answered requests
\* that asked for it wants it, but for those an overtaken request had found on
\* its copy and did not write.
THEOREM ChangesAreKept == Spec => []ChangesHold
<1>1. Inv /\ Granted => ChangesHold
  BY DEF Granted, ChangesHold, RowGranted, Plain, Rows, DeskRows, PortalRows
<1> QED BY <1>1, AlwaysGranted, PTL
-----------------------------------------------------------------------------
(***************************************************************************)
(* The conversation that a customer writes in.                             *)
(***************************************************************************)

\* The first WEB conversation is the first position of those over WEB.
LEMMA FirstPosition ==
  ASSUME NEW threads \in Seq(Threads), OverWeb(threads) # {}
  PROVE  \E i \in OverWeb(threads) :
           /\ i \in 1 .. Len(threads)
           /\ \A j \in OverWeb(threads) : i <= j
           /\ FirstOverWeb(threads) = {threads[i]} /\ Oldest(threads) = threads[i]
<1>1. OverWeb(threads) \subseteq 1 .. Len(threads) /\ OverWeb(threads) \subseteq Nat
  BY DEF OverWeb
<1>2. PICK i \in OverWeb(threads) : \A j \in OverWeb(threads) : i <= j
  BY <1>1, FirstExists
<1>3. \A k \in OverWeb(threads) : (\A j \in OverWeb(threads) : k <= j) => k = i
  BY <1>1, <1>2
<1>4. FirstOverWeb(threads) = {threads[i]}
  BY <1>2, <1>3 DEF FirstOverWeb
<1>5. Oldest(threads) = threads[i]
  BY <1>2, <1>3 DEF Oldest
<1> QED BY <1>1, <1>2, <1>4, <1>5

\* A conversation added at the end is the first over WEB only if there was none.
LEMMA AddedAtTheEnd ==
  ASSUME NEW threads \in Seq(Threads), NEW thread \in Threads,
         NEW new \in Inserted(threads, thread, threads)
  PROVE  /\ OverWeb(threads) # {} => FirstOverWeb(new) = FirstOverWeb(threads)
         /\ OverWeb(threads) = {} /\ thread.channel = "web" => FirstOverWeb(new) = {thread}
<1>1. PICK n \in Nat : n = Len(threads)
  OBVIOUS
<1>2. new = InsertAt(threads, n + 1, thread)
  BY <1>1 DEF Inserted
<1>3. /\ new \in Seq(Threads) /\ Len(new) = n + 1
      /\ \A i \in 1 .. Len(new) :
           new[i] = IF i < n + 1 THEN threads[i] ELSE IF i = n + 1 THEN thread ELSE threads[i - 1]
  <2>1. n + 1 \in 1 .. (Len(threads) + 1)
    BY <1>1
  <2> QED BY <1>1, <1>2, <2>1, InsertedAt
<1>4. DOMAIN new = 1 .. (n + 1) /\ DOMAIN threads = 1 .. n
  BY <1>1, <1>3
<1>5. \A i \in 1 .. n : new[i] = threads[i] /\ i \in 1 .. (n + 1) /\ i < n + 1
  BY <1>1, <1>3
<1>6. new[n + 1] = thread /\ n + 1 \in 1 .. (n + 1)
  BY <1>1, <1>3
<1>7. \A i \in 1 .. (n + 1) : i \in 1 .. n \/ i = n + 1
  BY <1>1
<1>8. CASE OverWeb(threads) # {}
  <2>1. PICK i \in OverWeb(threads) :
          /\ i \in 1 .. n /\ \A j \in OverWeb(threads) : i <= j
          /\ FirstOverWeb(threads) = {threads[i]}
    BY <1>1, <1>8, FirstPosition
  <2>2. i \in OverWeb(new)
    BY <1>4, <1>5, <2>1 DEF OverWeb
  <2>3. \A j \in OverWeb(new) : j \in OverWeb(threads) \/ j = n + 1
    BY <1>4, <1>5, <1>7 DEF OverWeb
  <2>4. \A j \in OverWeb(new) : i <= j
    BY <1>5, <2>1, <2>3
  <2>5. PICK k \in OverWeb(new) : /\ \A j \in OverWeb(new) : k <= j
                                  /\ k \in 1 .. (n + 1) /\ FirstOverWeb(new) = {new[k]}
    BY <1>3, <2>2, FirstPosition
  <2>6. k = i
    BY <2>1, <2>2, <2>4, <2>5
  <2> QED BY <1>5, <1>8, <2>1, <2>5, <2>6
<1>9. CASE OverWeb(threads) = {} /\ thread.channel = "web"
  <2>1. OverWeb(new) = {n + 1}
    <3>1. n + 1 \in OverWeb(new)
      BY <1>4, <1>6, <1>9 DEF OverWeb
    <3>2. ASSUME NEW j \in OverWeb(new) PROVE j = n + 1
      <4>1. j \notin 1 .. n
        BY <1>4, <1>5, <1>9 DEF OverWeb
      <4> QED BY <1>4, <1>7, <4>1 DEF OverWeb
    <3> QED BY <3>1, <3>2
  <2>2. PICK k \in OverWeb(new) : FirstOverWeb(new) = {new[k]}
    BY <1>3, <2>1, FirstPosition
  <2> QED BY <1>6, <1>9, <2>1, <2>2
<1> QED BY <1>8, <1>9

\* A message leaves the conversations in their order, and one for the first
\* over WEB comes to stand there.
LEMMA PostedInPlace ==
  ASSUME NEW threads \in Seq(Threads), OverWeb(threads) # {}, NEW r \in Requests,
         NEW id, NEW new, new = Posted(threads, id, r), new \in Seq(Threads)
  PROVE  \E i \in 1 .. Len(threads) :
           /\ FirstOverWeb(threads) = {threads[i]} /\ Oldest(threads) = threads[i]
           /\ FirstOverWeb(new) = {new[i]} /\ new[i].id = threads[i].id
           /\ threads[i].id = id => r \in new[i].posts
<1>1. DOMAIN new = DOMAIN threads
  BY DEF Posted
<1>2. ASSUME NEW i \in DOMAIN threads
      PROVE  /\ new[i].channel = threads[i].channel /\ new[i].id = threads[i].id
             /\ threads[i].id = id => r \in new[i].posts
  <2>1. threads[i] \in Threads
    OBVIOUS
  <2> QED BY <2>1 DEF Posted, Threads
<1>3. OverWeb(new) = OverWeb(threads)
  BY <1>1, <1>2 DEF OverWeb
<1>4. PICK i \in OverWeb(threads) :
        /\ i \in 1 .. Len(threads) /\ \A j \in OverWeb(threads) : i <= j
        /\ FirstOverWeb(threads) = {threads[i]} /\ Oldest(threads) = threads[i]
  BY FirstPosition
<1>5. PICK k \in OverWeb(new) : /\ \A j \in OverWeb(new) : k <= j
                                /\ k \in 1 .. Len(new) /\ FirstOverWeb(new) = {new[k]}
  BY <1>3, FirstPosition
<1>6. k = i
  BY <1>3, <1>4, <1>5
<1> QED BY <1>2, <1>4, <1>5, <1>6

\* The promise of ThreadStays for one ticket.
StaysFor(t) ==
  LET was == FirstOverWeb(row[t].threads)
      now == FirstOverWeb(row'[t].threads)
  IN  /\ {c.id : c \in was} \subseteq {c.id : c \in now}
      /\ CustomersOwn(t) \subseteq UNION {c.posts : c \in now}

Stays ==
  \A t \in Tickets :
    row[t] # Absent /\ row[t] # row'[t] =>
      \/ \E r \in Requests : CommitsLate(r, t)
      \/ StaysFor(t)

\* A request that was not overtaken changes a ticket for the better.
LEMMA ThreadStep ==
  ASSUME Inv, Granted, Granted', NEW r \in Requests, DeskServe(r) \/ PortalServe(r),
         NEW t \in Tickets, req[r].on = t, ~req[r].late,
         row[t] # Absent, row[t] # row'[t]
  PROVE  StaysFor(t)
<1>1. Looked(r) /\ Fits(req[r].op, t, req[r].ask)
  BY ServeEnds DEF Ends, Commits, Inv
<1>2. t \in Rows
  BY DEF Rows, PortalRows
<1>3. req[r].op \in {"portal_create_ticket", "portal_add_message", "create_conversation",
                     "create_message"}
  BY <1>1, Kinds DEF Fits, LookupsOf
<1>4. req[r].op # "portal_create_ticket"
  BY <1>1 DEF Inv, Reserved, Creations
<1>5. OpenConversation(r) \/ Post(r) \/ AddMessage(r)
  BY <1>3, <1>4 DEF DeskServe, PortalServe, Serving, CreateTask, SetTaskStatus,
     MarkNotificationRead, CreateQueue, UpdateQueue, CreateCategory, UpdateCategory,
     CreateTag, AddTag, RemoveTag, CreateOrganization, UpdateOrganization, CreateClient,
     UpdateClient, AddContact, DeleteContact, LinkClientUser, CreateTicket
<1>6. ~Refuse(r)
  BY DEF Refuse
<1>7. req[r].saw = row[t]
  BY <1>1 DEF Inv, Copies
<1>8. row[t] \in [client : Clients, threads : Seq(Threads)] /\ row'[t] # Absent
  <2>1. IsRow(t, row[t])
    BY <1>2, Kinds DEF Granted, RowGranted, Shape
  <2>2. row'[t] # Absent
    BY <1>1, <1>2, <1>5, <1>6, AllServe, Kinds DEF Serves, Follows
  <2> QED BY <2>1, <2>2, Kinds DEF IsRow, LookupsOf
<1> DEFINE stored == row[t].threads
<1>9. PICK threads : threads = row'[t].threads
  OBVIOUS
<1>10. threads \in Seq(Threads)
  <2>1. IsRow(t, row'[t])
    BY <1>2, <1>8, Kinds DEF Granted, RowGranted, Shape
  <2> QED BY <1>9, <2>1, Kinds DEF IsRow, LookupsOf
<1>11. ListMessages(t) = granted[t] /\ ListMessages(t)' = granted'[t]
  BY <1>2, <1>8 DEF Granted, RowGranted
<1>12. ASSUME NEW new, Commit(r, [row EXCEPT ![t].threads = new])
       PROVE  threads = new
  BY <1>2, <1>8, <1>9, <1>12 DEF Commit, Inv, Rows
<1>13. stored \in Seq(Threads)
  BY <1>8
<1> HIDE DEF stored
\* A conversation whose stamp is younger than all it saw is added at the end.
<1>14. CASE OpenConversation(r)
  <2>1. PICK thread : thread = NewThread(r, req[r].ask, {})
    OBVIOUS
  <2>2. thread \in Threads
    BY <1>1, <1>14, <2>1, ServingLooked DEF OpenConversation, Fits, NewThread, Threads
  <2>3. threads \in Inserted(stored, thread, stored)
    BY <1>7, <1>12, <1>14, <2>1 DEF OpenConversation, stored
  <2>4. CustomersOwn(t) = {}
    BY <1>11, <1>14 DEF OpenConversation, CustomersOwn
  <2>5. OverWeb(stored) = {} => FirstOverWeb(stored) = {}
    BY DEF FirstOverWeb
  <2>6. OverWeb(stored) # {} => FirstOverWeb(threads) = FirstOverWeb(stored)
    BY <1>13, <2>2, <2>3, AddedAtTheEnd
  <2> QED BY <1>9, <2>4, <2>5, <2>6 DEF StaysFor, stored
<1>15. CASE Post(r)
  <2>1. threads = Posted(stored, req[r].ask, r)
    BY <1>12, <1>15 DEF Post, stored
  <2>2. CustomersOwn(t) = {}
    <3>1. granted'[t] = granted[t] \cup {r} /\ req[r].op = "create_message"
      BY <1>2, <1>15 DEF Post, Serving, Granted
    <3> QED BY <1>11, <3>1 DEF CustomersOwn
  <2>3. OverWeb(stored) = {} => FirstOverWeb(stored) = {}
    BY DEF FirstOverWeb
  <2>4. OverWeb(stored) # {} =>
          {c.id : c \in FirstOverWeb(stored)} \subseteq {c.id : c \in FirstOverWeb(threads)}
    BY <1>10, <1>13, <2>1, PostedInPlace
  <2> QED BY <1>9, <2>2, <2>3, <2>4 DEF StaysFor, stored
<1>16. CASE AddMessage(r)
  <2>1. CustomersOwn(t) \subseteq {r}
    <3>1. granted'[t] = granted[t] \cup {r}
      BY <1>2, <1>6, <1>16 DEF AddMessage, Granted
    <3> QED BY <1>11, <3>1 DEF CustomersOwn
  <2>2. CASE OverWeb(stored) # {}
    <3>1. threads = Posted(stored, Oldest(stored).id, r)
      BY <1>6, <1>7, <1>12, <1>16, <2>2 DEF AddMessage, stored
    <3>2. PICK i \in 1 .. Len(stored) :
            /\ FirstOverWeb(stored) = {stored[i]} /\ Oldest(stored) = stored[i]
            /\ FirstOverWeb(threads) = {threads[i]} /\ threads[i].id = stored[i].id
            /\ stored[i].id = Oldest(stored).id => r \in threads[i].posts
      BY <1>10, <1>13, <2>2, <3>1, PostedInPlace
    <3> QED BY <1>9, <2>1, <3>2 DEF StaysFor, stored
  <2>3. CASE OverWeb(stored) = {}
    <3>1. PICK thread : thread = NewThread(r, "web", {r})
      OBVIOUS
    <3>2. threads \in Inserted(stored, thread, stored)
      BY <1>6, <1>7, <1>12, <1>16, <2>3, <3>1 DEF AddMessage, stored
    <3>3. thread \in Threads /\ thread.channel = "web" /\ thread.posts = {r}
      BY <3>1 DEF NewThread, Threads, Channels
    <3>4. FirstOverWeb(threads) = {thread}
      BY <1>13, <2>3, <3>2, <3>3, AddedAtTheEnd
    <3>5. FirstOverWeb(stored) = {}
      BY <2>3 DEF FirstOverWeb
    <3> QED BY <1>9, <2>1, <3>3, <3>4, <3>5 DEF StaysFor, stored
  <2> QED BY <2>2, <2>3
<1> QED BY <1>5, <1>14, <1>15, <1>16

\* The conversation that a customer writes in stays the same, and what the
\* customer writes comes to stand in it, unless requests about the ticket
\* overlap: add_message looks for the oldest WEB conversation, and whoever
\* adds one adds it behind those it saw.
THEOREM CustomersThreadStays == Spec => ThreadStays
<1>1. Inv /\ Granted /\ (Inv /\ Granted)' /\ [Next]_vars => [Stays]_vars
  <2>1. SUFFICES ASSUME Inv, Granted, (Inv /\ Granted)', Next,
                        NEW t \in Tickets, row[t] # Absent, row[t] # row'[t],
                        ~ \E r \in Requests : CommitsLate(r, t)
                 PROVE  StaysFor(t)
    BY DEF Stays
  <2>2. PICK r \in Requests : DeskAsk(r) \/ DeskServe(r) \/ PortalAsk(r) \/ PortalServe(r)
    BY <2>1 DEF Next
  <2>3. DeskServe(r) \/ PortalServe(r)
    BY <2>1, <2>2, AskIsLook DEF Asks, Look
  <2>4. Commits(r)
    BY <2>1, <2>3, ServeEnds DEF Ends
  <2>5. PICK next : Commit(r, next) /\ (next[t] # row[t] => t = req[r].on)
    BY <2>1, <2>4 DEF Commits
  <2>6. req[r].on = t /\ req'[r].at = "answered" /\ Looked(r)
    BY <2>1, <2>4, <2>5 DEF Commit, Settled, Commits
  <2>7. ~req[r].late
    BY <2>1, <2>6 DEF CommitsLate, Looked
  <2> QED BY <2>1, <2>3, <2>6, <2>7, ThreadStep
<1>2. ThreadStays <=> [][Stays]_vars
  BY DEF ThreadStays, Stays, StaysFor
<1> QED BY <1>1, <1>2, AlwaysGranted, PTL DEF Spec
=============================================================================
