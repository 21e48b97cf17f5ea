----------------------------- MODULE ServiceDesk -----------------------------
(***************************************************************************)
(* The rows operators keep beside the tickets: tasks and the notifications *)
(* they raise, queues, categories and tags, the tags of a ticket,          *)
(* organizations, clients and their contacts.                              *)
(*                                                                         *)
(* Every one of these handlers has the same shape under READ COMMITTED: it *)
(* loads the row it was asked about, decides on that copy, and at the      *)
(* flush writes only the columns that differ from the copy; no row is      *)
(* locked and no version compared.  A request is therefore two steps: the  *)
(* look that takes the copy, and the commit that decides on the copy and   *)
(* writes on the row as it is by then.  The constraints of the database    *)
(* are tested at the commit.                                               *)
(*                                                                         *)
(* The requests of Requests are each made once, which bounds a behaviour.  *)
(* Columns a handler treats alike (a name and a note, a flag and a color)  *)
(* are stood for by one of them; times are "never" or "stamped".           *)
(*                                                                         *)
(* What a handler answers is its copy with the columns it set, so it may   *)
(* show other columns as they were at the look: a cancellation that was    *)
(* overtaken shows no completed_at where one is stored.  Answers are not   *)
(* modelled; granted keeps what the answered requests asked for.           *)
(***************************************************************************)
EXTENDS FiniteSets

CONSTANTS
  Requests,        \* the requests that are made
  Users,           \* the users that have an account
  Members,         \* the users that are members of the workspace
  Names,           \* the names given to queues, categories and tags
  Tasks,           \* identifiers of support tasks
  Notices,         \* identifiers of notifications
  NoticeOf,        \* the notification that announces a task
  Lookups,         \* identifiers of queues, categories and tags
  TableOf,         \* which of the three a lookup row is
  Pairs,           \* the pairs of a ticket and a tag
  TagOf,           \* the tag of a pair
  Organizations,   \* identifiers of client organizations
  Clients,         \* identifiers of clients
  Contacts,        \* identifiers of contacts of clients
  ClientOf,        \* the client of a contact
  None,            \* no user, no organization
  Absent           \* the value of a row that is not stored

\* Identifiers of different tables differ, and each task has a notification
\* of its own that announces it.
ASSUME DeskConstants ==
  /\ Tasks \cap (Notices \cup Lookups \cup Pairs \cup Organizations \cup Clients \cup Contacts) = {}
  /\ Notices \cap (Lookups \cup Pairs \cup Organizations \cup Clients \cup Contacts) = {}
  /\ Lookups \cap (Pairs \cup Organizations \cup Clients \cup Contacts) = {}
  /\ Pairs \cap (Organizations \cup Clients \cup Contacts) = {}
  /\ Organizations \cap (Clients \cup Contacts) = {}
  /\ Clients \cap Contacts = {}
  /\ Members \subseteq Users /\ None \notin Users /\ Absent # "tagged"
  /\ NoticeOf \in [Tasks -> Notices]
  /\ \A t, u \in Tasks : NoticeOf[t] = NoticeOf[u] => t = u
  /\ TableOf \in [Lookups -> {"queue", "category", "tag"}]
  /\ TagOf \in [Pairs -> Lookups]
  /\ ClientOf \in [Contacts -> Clients]

VARIABLES
  row,             \* what is stored under each identifier
  req,             \* the state of each request
  granted,         \* what requests that were answered asked of each row, in the order
                   \* of their commits
  unwritten        \* <<row, column>> an overtaken request was answered without writing

vars == <<row, req, granted, unwritten>>

DeskRows ==
  Tasks \cup Notices \cup Lookups \cup Pairs \cup Organizations \cup Clients \cup Contacts

-----------------------------------------------------------------------------
\* The columns of the tables.

TaskColumns         == {"status", "completed_at"}
NoticeColumns       == {"user", "read_at"}
QueueColumns        == {"name", "is_active"}
CategoryColumns     == {"name", "is_active"}
TagColumns          == {"name"}
OrganizationColumns == {"is_active"}
ClientColumns       == {"is_active", "organization"}

LookupColumns(x) ==
  CASE TableOf[x] = "queue"    -> QueueColumns
    [] TableOf[x] = "category" -> CategoryColumns
    [] TableOf[x] = "tag"      -> TagColumns

\* What an update asks for: values for some of the columns of the row.
LookupPatches ==
  [{"name"} -> Names] \cup [{"is_active"} -> {"yes", "no"}]
    \cup {[name |-> n, is_active |-> a] : n \in Names, a \in {"yes", "no"}}

OrganizationPatches == [{"is_active"} -> {"yes", "no"}]

ClientPatches ==
  [{"organization"} -> Organizations] \cup [{"is_active"} -> {"yes", "no"}]
    \cup {[organization |-> g, is_active |-> a] : g \in Organizations, a \in {"yes", "no"}}

-----------------------------------------------------------------------------
\* A request: its look, and the ways it ends.

Settled(at) == [at |-> at, op |-> "none", on |-> "none", ask |-> None,
                saw |-> Absent, late |-> FALSE]

Unmade == Settled("unmade")

\* The first read of a handler: a copy of the row the request is about.
Look(r, op, on, ask) ==
  /\ req[r].at = "unmade"
  /\ req' = [req EXCEPT ![r] = [at |-> "looked", op |-> op, on |-> on, ask |-> ask,
                                saw |-> row[on], late |-> FALSE]]
  /\ UNCHANGED <<row, granted, unwritten>>

\* An identifier nobody knows yet: identifiers are random, and none returns
\* after its row is deleted.
Fresh(x) ==
  /\ row[x] = Absent
  /\ granted[x] = Absent
  /\ \A s \in Requests : req[s].on # x

Serving(r, op) == req[r].at = "looked" /\ req[r].op = op

\* The commit.  A request that looked at a row this changes is late from now on.
Commit(r, next) ==
  /\ row' = next
  /\ req' = [s \in Requests |->
       IF s = r THEN Settled("answered")
       ELSE IF req[s].at = "looked" /\ next[req[s].on] # row[req[s].on]
            THEN [req[s] EXCEPT !.late = TRUE]
            ELSE req[s]]

\* A 404 or a 422: nothing was written.
Refuse(r) ==
  /\ req' = [req EXCEPT ![r] = Settled("refused")]
  /\ UNCHANGED <<row, granted, unwritten>>

\* A constraint of the database refused the flush: the transaction is rolled
\* back and the client gets a 500.
Fail(r) ==
  /\ req' = [req EXCEPT ![r] = Settled("failed")]
  /\ UNCHANGED <<row, granted, unwritten>>

\* INSERT of a row under an identifier of its own.
Insert(r, value) ==
  /\ Commit(r, [row EXCEPT ![req[r].on] = value])
  /\ granted' = [granted EXCEPT ![req[r].on] = value]
  /\ UNCHANGED unwritten

\* Mutant: a value is taken when it is true, not when it is given.
Written_Truthy(patch, saw) == {c \in DOMAIN patch : patch[c] # saw[c] /\ patch[c] # "no"}

\* UPDATE: of the columns asked for, those that differ from the copy.
Written(patch, saw) == {c \in DOMAIN patch : patch[c] # saw[c]}

Updated(stored, patch, columns) ==
  [c \in DOMAIN stored |-> IF c \in columns THEN patch[c] ELSE stored[c]]

Update(r, patch) ==
  LET o     == req[r].on
      wrote == Written(patch, req[r].saw)
  IN  /\ Commit(r, [row EXCEPT ![o] = Updated(@, patch, wrote)])
      /\ granted' = [granted EXCEPT ![o] = Updated(@, patch, DOMAIN patch)]
      /\ unwritten' = (unwritten \ ({o} \X wrote))
           \cup (IF req[r].late THEN {o} \X (DOMAIN patch \ wrote) ELSE {})

-----------------------------------------------------------------------------
\* Tasks and the notifications of the members they are assigned to.

AskCreateTask(r) ==
  \E t \in Tasks, assignee \in Users \cup {None} :
    Fresh(t) /\ Look(r, "create_task", t, assignee)

\* Mutant: the membership of the assignee is not asked for.
ValidAssignee_Any(user) == TRUE

\* Only members of the workspace are given a task.
ValidAssignee(user) == user = None \/ user \in Members

CreateTask(r) ==
  LET t        == req[r].on
      assignee == req[r].ask
      task     == [status |-> "open", completed_at |-> "never"]
      notice   == [user |-> assignee, read_at |-> "never"]
  IN  /\ Serving(r, "create_task")
      /\ \/ /\ ~ValidAssignee(assignee)
            /\ Refuse(r)
         \/ /\ assignee = None
            /\ Insert(r, task)
         \/ /\ ValidAssignee(assignee) /\ assignee # None
            /\ Commit(r, [row EXCEPT ![t] = task, ![NoticeOf[t]] = notice])
            /\ granted' = [granted EXCEPT ![t] = task, ![NoticeOf[t]] = notice]
            /\ UNCHANGED unwritten

AskSetTaskStatus(r) ==
  \E t \in Tasks, s \in {"open", "done", "cancelled"} :
    row[t] # Absent /\ Look(r, "set_task_status", t, s)

\* Only the copy is compared with OPEN.
TaskMayChange(saw, status) == saw["status"] = "open" /\ status \in {"done", "cancelled"}

StatusPatch(status) ==
  IF status = "done" THEN [status |-> "done", completed_at |-> "stamped"]
                     ELSE [status |-> "cancelled"]

SetTaskStatus(r) ==
  /\ Serving(r, "set_task_status")
  /\ IF TaskMayChange(req[r].saw, req[r].ask)
     THEN Update(r, StatusPatch(req[r].ask))
     ELSE Refuse(r)

AskMarkRead(r) ==
  \E n \in Notices, user \in Members :
    row[n] # Absent /\ Look(r, "mark_notification_read", n, user)

\* The query also asks for the caller's own notifications.  A notification
\* that was read already is answered as it is.
MarkNotificationRead(r) ==
  /\ Serving(r, "mark_notification_read")
  /\ IF req[r].saw["user"] = req[r].ask
     THEN Update(r, [read_at |-> "stamped"])
     ELSE Refuse(r)

-----------------------------------------------------------------------------
\* Queues, categories and tags: a name is used once in its table.

NameTaken(x, name) ==
  \E y \in Lookups \ {x} :
    TableOf[y] = TableOf[x] /\ row[y] # Absent /\ row[y]["name"] = name

LookupsOf(table) == {x \in Lookups : TableOf[x] = table}

\* No name is looked up first: only the constraint refuses a second one.
CreateLookup(r) ==
  LET x == req[r].on
  IN  IF NameTaken(x, req[r].ask)
      THEN Fail(r)
      ELSE Insert(r, [c \in LookupColumns(x) |-> IF c = "name" THEN req[r].ask ELSE "yes"])

UpdateLookup(r) ==
  LET patch == req[r].ask
  IN  IF "name" \in Written(patch, req[r].saw) /\ NameTaken(req[r].on, patch["name"])
      THEN Fail(r)
      ELSE Update(r, patch)

AskCreateQueue(r) ==
  \E x \in LookupsOf("queue"), n \in Names : Fresh(x) /\ Look(r, "create_queue", x, n)

CreateQueue(r) == Serving(r, "create_queue") /\ CreateLookup(r)

AskUpdateQueue(r) ==
  \E x \in LookupsOf("queue"), patch \in LookupPatches :
    row[x] # Absent /\ Look(r, "update_queue", x, patch)

UpdateQueue(r) == Serving(r, "update_queue") /\ UpdateLookup(r)

AskCreateCategory(r) ==
  \E x \in LookupsOf("category"), n \in Names : Fresh(x) /\ Look(r, "create_category", x, n)

CreateCategory(r) == Serving(r, "create_category") /\ CreateLookup(r)

AskUpdateCategory(r) ==
  \E x \in LookupsOf("category"), patch \in LookupPatches :
    row[x] # Absent /\ Look(r, "update_category", x, patch)

UpdateCategory(r) == Serving(r, "update_category") /\ UpdateLookup(r)

AskCreateTag(r) ==
  \E x \in LookupsOf("tag"), n \in Names : Fresh(x) /\ Look(r, "create_tag", x, n)

CreateTag(r) == Serving(r, "create_tag") /\ CreateLookup(r)

-----------------------------------------------------------------------------
\* The tags of a ticket.  The row of a pair is known by who inserted it, for
\* a pair that is removed and added again is another row.

AskAddTag(r) == \E p \in Pairs : Look(r, "add_tag", p, None)

\* A pair the copy holds is answered as it is.
AddTag(r) ==
  LET p == req[r].on
  IN  /\ Serving(r, "add_tag")
      /\ \/ /\ row[TagOf[p]] = Absent
            /\ Refuse(r)
         \/ /\ row[TagOf[p]] # Absent
            /\ req[r].saw # Absent
            /\ Commit(r, row)
            /\ granted' = [granted EXCEPT ![p] = "tagged"]
            /\ unwritten' = unwritten \cup (IF req[r].late THEN {<<p, "row">>} ELSE {})
         \/ /\ row[TagOf[p]] # Absent
            /\ req[r].saw = Absent
            /\ row[p] # Absent
            /\ Fail(r)
         \/ /\ row[TagOf[p]] # Absent
            /\ req[r].saw = Absent
            /\ row[p] = Absent
            /\ Commit(r, [row EXCEPT ![p] = r])
            /\ granted' = [granted EXCEPT ![p] = "tagged"]
            /\ unwritten' = unwritten \ {<<p, "row">>}

AskRemoveTag(r) == \E p \in Pairs : Look(r, "remove_tag", p, None)

\* The DELETE names the row of the copy: it meets no row when another request
\* has deleted that one, and the handler answers all the same.
Deleted(stored, saw) == IF stored = saw THEN Absent ELSE stored

RemoveTag(r) ==
  LET p     == req[r].on
      wrote == req[r].saw # Absent /\ row[p] = req[r].saw
  IN  /\ Serving(r, "remove_tag")
      /\ Commit(r, [row EXCEPT ![p] = Deleted(@, req[r].saw)])
      /\ granted' = [granted EXCEPT ![p] = Absent]
      /\ unwritten' = IF wrote THEN unwritten \ {<<p, "row">>}
                      ELSE unwritten \cup (IF req[r].late THEN {<<p, "row">>} ELSE {})

-----------------------------------------------------------------------------
\* Organizations, clients and contacts.  Only contacts are ever deleted.

AskCreateOrganization(r) ==
  \E g \in Organizations : Fresh(g) /\ Look(r, "create_organization", g, None)

CreateOrganization(r) ==
  Serving(r, "create_organization") /\ Insert(r, [is_active |-> "yes"])

AskUpdateOrganization(r) ==
  \E g \in Organizations, patch \in OrganizationPatches :
    row[g] # Absent /\ Look(r, "update_organization", g, patch)

UpdateOrganization(r) == Serving(r, "update_organization") /\ Update(r, req[r].ask)

ValidOrganization(g) == g = None \/ row[g] # Absent

AskCreateClient(r) ==
  \E c \in Clients, g \in Organizations \cup {None} :
    Fresh(c) /\ Look(r, "create_client", c, g)

CreateClient(r) ==
  /\ Serving(r, "create_client")
  /\ IF ValidOrganization(req[r].ask)
     THEN Insert(r, [is_active |-> "yes", organization |-> req[r].ask])
     ELSE Refuse(r)

\* DELETE on a client is the update that makes it inactive.
AskUpdateClient(r) ==
  \E c \in Clients, patch \in ClientPatches :
    row[c] # Absent /\ Look(r, "update_client", c, patch)

UpdateClient(r) ==
  LET patch == req[r].ask
  IN  /\ Serving(r, "update_client")
      /\ IF "organization" \in DOMAIN patch => ValidOrganization(patch["organization"])
         THEN Update(r, patch)
         ELSE Refuse(r)

AskAddContact(r) == \E x \in Contacts : Fresh(x) /\ Look(r, "add_contact", x, ClientOf[x])

AddContact(r) ==
  /\ Serving(r, "add_contact")
  /\ IF row[req[r].ask] # Absent THEN Insert(r, "kept") ELSE Refuse(r)

AskDeleteContact(r) ==
  \E x \in Contacts, c \in Clients : Look(r, "delete_contact", x, c)

DeleteContact(r) ==
  LET x == req[r].on
  IN  /\ Serving(r, "delete_contact")
      /\ \/ /\ req[r].saw = Absent \/ ClientOf[x] # req[r].ask
            /\ Refuse(r)
         \/ /\ req[r].saw # Absent /\ ClientOf[x] = req[r].ask
            /\ Commit(r, [row EXCEPT ![x] = Deleted(@, req[r].saw)])
            /\ granted' = [granted EXCEPT ![x] = "deleted"]
            /\ UNCHANGED unwritten

-----------------------------------------------------------------------------
DeskAsk(r) ==
  \/ AskCreateTask(r)         \/ AskSetTaskStatus(r)      \/ AskMarkRead(r)
  \/ AskCreateQueue(r)        \/ AskUpdateQueue(r)        \/ AskCreateCategory(r)
  \/ AskUpdateCategory(r)     \/ AskCreateTag(r)          \/ AskAddTag(r)
  \/ AskRemoveTag(r)          \/ AskCreateOrganization(r) \/ AskUpdateOrganization(r)
  \/ AskCreateClient(r)       \/ AskUpdateClient(r)       \/ AskAddContact(r)
  \/ AskDeleteContact(r)

DeskServe(r) ==
  \/ CreateTask(r)            \/ SetTaskStatus(r)         \/ MarkNotificationRead(r)
  \/ CreateQueue(r)           \/ UpdateQueue(r)           \/ CreateCategory(r)
  \/ UpdateCategory(r)        \/ CreateTag(r)             \/ AddTag(r)
  \/ RemoveTag(r)             \/ CreateOrganization(r)    \/ UpdateOrganization(r)
  \/ CreateClient(r)          \/ UpdateClient(r)          \/ AddContact(r)
  \/ DeleteContact(r)
=============================================================================
