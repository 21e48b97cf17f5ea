------------------------------- MODULE Portal --------------------------------
(***************************************************************************)
(* The customer portal beside the service desk: the links that bind a user *)
(* to a client, the tickets customers open, and the conversation their     *)
(* messages go to.                                                         *)
(*                                                                         *)
(* The links of the workspace are the row LinkTable, a set of pairs; a     *)
(* ticket's row holds its client and its conversations in the order of     *)
(* created_at, each with its channel, WEB or another, and its messages.    *)
(* created_at is stamped at the flush, and the order of the stamps of two  *)
(* transactions that overlap need not be the order of their commits.       *)
(***************************************************************************)
EXTENDS ServiceDesk, Sequences, SequencesExt

CONSTANTS
  Tickets,         \* identifiers of tickets
  LinkTable,       \* stands for the rows of client_user_links
  Starts           \* what earlier requests may have stored

PortalRows == Tickets \cup {LinkTable}

ASSUME PortalConstants ==
  /\ Tickets \cap DeskRows = {}
  /\ LinkTable \notin DeskRows \cup Tickets
  /\ \A s \in Starts : DOMAIN s = DeskRows \cup PortalRows

LinksOf(clients) == [client : clients, user : Users]

NewTicket(client) == [client |-> client, threads |-> <<>>]

Channels == {"web", "other"}

NewThread(r, channel, posts) == [id |-> r, channel |-> channel, posts |-> posts]

-----------------------------------------------------------------------------
\* Links.  Users that have no account, or an inactive one, cannot be linked.

AskLinkClientUser(r) ==
  \E c \in Clients, u \in Users \cup {None} :
    Look(r, "link_client_user", LinkTable, [client |-> c, user |-> u])

\* Mutant: only the client is looked for.
Existing_Client(links, link) == {l \in links : l.client = link.client}

\* The rows the handler finds that hold the user or the client already.
Existing(links, link) == {l \in links : l.user = link.user \/ l.client = link.client}

\* The two constraints: a user has one link in a workspace, and a client one.
Clashes(links, link) == \E l \in links : l.user = link.user \/ l.client = link.client

LinkClientUser(r) ==
  LET link == req[r].ask
      seen == Existing(req[r].saw, link)
  IN  /\ Serving(r, "link_client_user")
      /\ \/ /\ \/ row[link.client] = Absent
               \/ link.user \notin Users
               \/ seen # {} /\ link \notin seen
            /\ Refuse(r)
         \/ /\ row[link.client] # Absent /\ link.user \in Users
            /\ link \in seen
            /\ Commit(r, row)
            /\ UNCHANGED <<granted, unwritten>>
         \/ /\ row[link.client] # Absent /\ link.user \in Users
            /\ seen = {}
            /\ IF Clashes(row[LinkTable], link)
               THEN Fail(r)
               ELSE /\ Commit(r, [row EXCEPT ![LinkTable] = @ \cup {link}])
                    /\ granted' = [granted EXCEPT ![LinkTable] = @ \cup {link}]
                    /\ UNCHANGED unwritten

-----------------------------------------------------------------------------
\* Tickets and messages.  A link is found by its identifier and its user; that
\* its client is active is not asked.

AskCreateTicket(r) ==
  \E t \in Tickets, link \in LinksOf(Clients) :
    Fresh(t) /\ Look(r, "portal_create_ticket", t, link)

CreateTicket(r) ==
  LET link == req[r].ask
  IN  /\ Serving(r, "portal_create_ticket")
      /\ IF link \in row[LinkTable]
         THEN Commit(r, [row EXCEPT ![req[r].on] = NewTicket(link.client)])
              /\ granted' = [granted EXCEPT ![req[r].on] = {}]
              /\ UNCHANGED unwritten
         ELSE Refuse(r)

\* A conversation inserted with a stamp younger than those the copy showed.
Inserted(threads, thread, seen) ==
  {InsertAt(threads, i, thread) : i \in (Len(seen) + 1) .. (Len(threads) + 1)}

Posted(threads, id, r) ==
  [i \in DOMAIN threads |->
     IF threads[i].id = id THEN [threads[i] EXCEPT !.posts = @ \cup {r}] ELSE threads[i]]

AskOpenConversation(r) ==
  \E t \in Tickets, channel \in Channels :
    row[t] # Absent /\ Look(r, "create_conversation", t, channel)

\* An operator opens a conversation over any channel.
OpenConversation(r) ==
  LET t == req[r].on
  IN  /\ Serving(r, "create_conversation")
      /\ \E threads \in Inserted(row[t].threads, NewThread(r, req[r].ask, {}),
                                 req[r].saw.threads) :
           Commit(r, [row EXCEPT ![t].threads = threads])
      /\ UNCHANGED <<granted, unwritten>>

\* An operator writes in a conversation, or records what was received there.
AskPost(r) ==
  \E t \in Tickets :
    /\ row[t] # Absent
    /\ \E i \in DOMAIN row[t].threads : Look(r, "create_message", t, row[t].threads[i].id)

Post(r) ==
  LET t == req[r].on
  IN  /\ Serving(r, "create_message")
      /\ Commit(r, [row EXCEPT ![t].threads = Posted(@, req[r].ask, r)])
      /\ granted' = [granted EXCEPT ![t] = @ \cup {r}]
      /\ UNCHANGED unwritten

AskAddMessage(r) ==
  \E t \in Tickets, link \in LinksOf(Clients) :
    row[t] # Absent /\ Look(r, "portal_add_message", t, link)

OwnTicket(t, link) == link \in row[LinkTable] /\ row[t].client = link.client

\* The conversations a customer's message may go to.
OverWeb(threads) == {i \in DOMAIN threads : threads[i].channel = "web"}

\* Mutant: the newest conversation instead.
Oldest_Newest(threads) ==
  LET i == CHOOSE i \in OverWeb(threads) : \A j \in OverWeb(threads) : i >= j
  IN  threads[i]

\* The one it goes to.
Oldest(threads) ==
  LET i == CHOOSE i \in OverWeb(threads) : \A j \in OverWeb(threads) : i <= j
  IN  threads[i]

AddMessage(r) ==
  LET t    == req[r].on
      seen == req[r].saw.threads
  IN  /\ Serving(r, "portal_add_message")
      /\ \/ /\ ~OwnTicket(t, req[r].ask)
            /\ Refuse(r)
         \/ /\ OwnTicket(t, req[r].ask)
            /\ \E threads \in IF OverWeb(seen) # {}
                              THEN {Posted(row[t].threads, Oldest(seen).id, r)}
                              ELSE Inserted(row[t].threads, NewThread(r, "web", {r}), seen) :
                 Commit(r, [row EXCEPT ![t].threads = threads])
            /\ granted' = [granted EXCEPT ![t] = @ \cup {r}]
            /\ UNCHANGED unwritten

\* What a customer is shown of a ticket.
ListMessages(t) == UNION {row[t].threads[i].posts : i \in DOMAIN row[t].threads}

-----------------------------------------------------------------------------
\* What can be stored under an identifier.
Threads == [id : Requests \cup {None}, channel : Channels, posts : SUBSET (Requests \cup {None})]

IsRow(o, v) ==
  \/ o \in Tasks /\ v \in [status : {"open", "done", "cancelled"},
                           completed_at : {"never", "stamped"}]
                 /\ (v.status = "open" => v.completed_at = "never")
  \/ o \in Notices /\ v \in [user : Members, read_at : {"never", "stamped"}]
  \/ o \in LookupsOf("tag") /\ v \in [name : Names]
  \/ o \in LookupsOf("queue") \cup LookupsOf("category")
     /\ v \in [name : Names, is_active : {"yes", "no"}]
  \/ o \in Pairs /\ v \in Requests \cup {None}
  \/ o \in Organizations /\ v \in [is_active : {"yes", "no"}]
  \/ o \in Clients /\ v \in [is_active : {"yes", "no"}, organization : Organizations \cup {None}]
  \/ o \in Contacts /\ v = "kept"
  \/ o = LinkTable /\ v \in SUBSET LinksOf(Clients)
  \/ o \in Tickets /\ v \in [client : Clients, threads : Seq(Threads)]

Shape(o, v) == (v = Absent /\ o # LinkTable) \/ IsRow(o, v)

\* Rows stored before have the shape of their table, and a row that is not
\* stored looks like none that is.
ASSUME StartsAreRows ==
  \A o \in DeskRows \cup PortalRows :
    /\ o # LinkTable => ~IsRow(o, Absent)
    /\ \A s \in Starts :
         Shape(o, s[o]) /\ (o \in Tasks /\ s[o] = Absent => s[NoticeOf[o]] = Absent)

\* Rows that were stored before are as they were asked to be.
InitiallyGranted(o, v) ==
  IF v = Absent THEN Absent
  ELSE IF o \in Pairs THEN "tagged"
  ELSE IF o \in Tickets THEN UNION {v.threads[i].posts : i \in DOMAIN v.threads}
  ELSE v

Init ==
  /\ row \in Starts
  /\ req = [r \in Requests |-> Unmade]
  /\ granted = [o \in DeskRows \cup PortalRows |-> InitiallyGranted(o, row[o])]
  /\ unwritten = {}

PortalAsk(r) ==
  \/ AskLinkClientUser(r)     \/ AskCreateTicket(r)
  \/ AskOpenConversation(r)   \/ AskPost(r)             \/ AskAddMessage(r)

PortalServe(r) ==
  \/ LinkClientUser(r)        \/ CreateTicket(r)
  \/ OpenConversation(r)      \/ Post(r)                \/ AddMessage(r)

Next == \E r \in Requests : DeskAsk(r) \/ DeskServe(r) \/ PortalAsk(r) \/ PortalServe(r)

Spec == Init /\ [][Next]_vars

-----------------------------------------------------------------------------
\* Every row has the shape of its table, and a request that has looked holds a
\* copy of the shape of the row it looked at.
TypeOK ==
  /\ DOMAIN row = DeskRows \cup PortalRows
  /\ DOMAIN granted = DeskRows \cup PortalRows
  /\ \A o \in DeskRows \cup PortalRows : Shape(o, row[o])
  /\ \A r \in Requests :
       /\ req[r].at \in {"unmade", "looked", "answered", "refused", "failed"}
       /\ req[r].late \in BOOLEAN
       /\ req[r].at = "looked" => req[r].on \in DeskRows \cup PortalRows
                                  /\ Shape(req[r].on, req[r].saw)
       /\ req[r].at # "looked" => req[r] = Settled(req[r].at)

\* No update is lost, however the requests overlap: a column is as the last of
\* the requests that were answered and asked for it wants it, and what none of
\* them asked for stays, for a flush writes no column of the copy that the
\* request did not set.  The one exception is a request that was overtaken and
\* had found on its copy nothing to write, a column that already had the value
\* asked for or a tag that was already there or already gone; tasks,
\* notifications, contacts, links and messages know no exception.
ChangesHold ==
  /\ \A o \in Tasks \cup Notices \cup {LinkTable} : row[o] = granted[o]
  /\ \A o \in Lookups \cup Organizations \cup Clients :
       row[o] # Absent =>
         \A c \in DOMAIN row[o] : <<o, c>> \in unwritten \/ row[o][c] = granted[o][c]
  /\ \A p \in Pairs : <<p, "row">> \in unwritten \/ (row[p] # Absent <=> granted[p] = "tagged")
  /\ \A x \in Contacts : row[x] # Absent <=> granted[x] = "kept"
  /\ \A t \in Tickets : row[t] # Absent => ListMessages(t) = granted[t]

\* Request r commits in this step, and another request has changed the row
\* since r looked at it.
CommitsLate(r, o) ==
  req[r].at = "looked" /\ req[r].on = o /\ req[r].late /\ req'[r].at = "answered"

\* The name that request q asks for.
AsksForName(q, name) ==
  IF q.op \in {"create_queue", "create_category", "create_tag"}
  THEN q.ask = name
  ELSE "name" \in DOMAIN q.ask /\ q.ask["name"] = name

\* Why request q may fail.  Of a queue, a category or a tag: the very name it
\* asks for is in use.  Of anything else: another request has changed the row
\* since q looked at it.
MayFail(q) ==
  IF q.on \in Lookups
  THEN \E n \in Names : AsksForName(q, n) /\ NameTaken(q.on, n)
  ELSE q.late

\* A request fails on a constraint of the database only for a name in use or
\* because it was overtaken: the checks that handlers make on the rows they
\* load, of the tags of a ticket and of the links of users and clients, cover
\* the constraints that stand behind them.
FailuresAreClashes ==
  [][\A r \in Requests :
       req[r].at = "looked" /\ req'[r].at = "failed" => MayFail(req[r])]_vars

\* Messages of customers that are posted in this step.
CustomersOwn(t) ==
  {r \in ListMessages(t)' \ ListMessages(t) : req[r].op = "portal_add_message"}

\* The first WEB conversation, if there is one, and the messages in it.
FirstOverWeb(threads) ==
  {threads[i] : i \in {i \in OverWeb(threads) : \A j \in OverWeb(threads) : i <= j}}

\* The conversation a customer writes in stays the same, and what the customer
\* writes comes to stand in it, whatever conversations operators open: both fail
\* only for requests about one ticket that overlap.
ThreadStays ==
  [][\A t \in Tickets :
       row[t] # Absent /\ row[t] # row'[t] =>
         \/ \E r \in Requests : CommitsLate(r, t)
         \/ LET was == FirstOverWeb(row[t].threads)
                now == FirstOverWeb(row'[t].threads)
            IN  /\ {c.id : c \in was} \subseteq {c.id : c \in now}
                /\ CustomersOwn(t) \subseteq UNION {c.posts : c \in now}]_vars
=============================================================================
