-------------------------- MODULE AttachmentQuota --------------------------
(***************************************************************************)
(* Uploads of attachments to one workspace.                                *)
(*                                                                         *)
(* An upload takes the workspace's row lock (SELECT ... FOR UPDATE), sums  *)
(* the bytes stored, and inserts its attachment if they fit.  Every other  *)
(* insert of the workspace holds a FOR KEY SHARE lock on that row (its     *)
(* foreign key) until its transaction ends, and waits for FOR UPDATE.      *)
(*                                                                         *)
(* The upload handlers are coroutines: they run, and wait for the row      *)
(* lock, on the event loop of their API process.  The other handlers run   *)
(* in worker threads.  The session of either is closed, and a transaction  *)
(* it has not committed rolled back, by a worker thread too, but it is the *)
(* event loop that sends the close there.                                  *)
(***************************************************************************)
EXTENDS Naturals

CONSTANTS
  Uploads,    \* requests that attach a file to a message or a note
  Writers,    \* requests that insert rows and commit them
  Listings,   \* GET /sla/policies that materialise policies, not committed
  Processes,  \* API processes
  ProcessOf,  \* the process that serves each request
  Nobody,     \* a lock, or an event loop, that is free
  MaxBytes,   \* attachment_max_bytes
  Quota       \* attachment_workspace_quota_bytes

Requests == Uploads \cup Writers \cup Listings

\* The settings of a production deployment refuse a quota below the limit of
\* one file.
ASSUME QuotaConstants ==
  /\ Nobody \notin Requests
  /\ Uploads \cap (Writers \cup Listings) = {} /\ Writers \cap Listings = {}
  /\ ProcessOf \in [Requests -> Processes]
  /\ MaxBytes \in Nat \ {0} /\ Quota \in Nat /\ Quota >= MaxBytes

VARIABLES
  stored,     \* bytes of the committed attachments
  forUpdate,  \* the request that holds FOR UPDATE on the workspace row
  keyShare,   \* requests that hold FOR KEY SHARE on it
  loop,       \* loop[p]: the coroutine that p's event loop is inside of
  pc,         \* next step of each request
  size        \* bytes read from each upload

vars == <<stored, forUpdate, keyShare, loop, pc, size>>

\* The event loop of r's process has nothing to do but serve r.
LoopFree(r) == loop[ProcessOf[r]] = Nobody

Goto(r, label) == pc' = [pc EXCEPT ![r] = label]

\* The transaction of r ends: its locks go.
Release(r) ==
  /\ forUpdate' = IF forUpdate = r THEN Nobody ELSE forUpdate
  /\ keyShare' = keyShare \ {r}

LeaveLoop(r) == loop' = [loop EXCEPT ![ProcessOf[r]] = Nobody]
-----------------------------------------------------------------------------
\* Attachments of earlier requests may fill the quota to any degree.
Init ==
  /\ stored \in 0..Quota
  /\ forUpdate = Nobody /\ keyShare = {}
  /\ loop = [p \in Processes |-> Nobody]
  /\ pc = [r \in Requests |-> "idle"]
  /\ size = [u \in Uploads |-> 0]

\* The loop accepts a request and sends it to a worker thread.
Accept(r) ==
  /\ r \in Writers \cup Listings
  /\ pc[r] = "idle" /\ LoopFree(r)
  /\ Goto(r, "insert")
  /\ UNCHANGED <<stored, forUpdate, keyShare, loop, size>>

\* In its thread, the INSERT of a row that refers to the workspace.
Insert(r) ==
  /\ pc[r] = "insert"
  /\ forUpdate = Nobody
  /\ keyShare' = keyShare \cup {r}
  /\ Goto(r, IF r \in Writers THEN "commit" ELSE "returned")
  /\ UNCHANGED <<stored, forUpdate, loop, size>>

\* A writer commits in its thread, or fails there: a failed flush has rolled
\* back before the handler ends.
EndWriter(r) ==
  /\ r \in Writers /\ pc[r] = "commit"
  /\ Release(r)
  /\ Goto(r, "returned")
  /\ UNCHANGED <<stored, loop, size>>

\* _bounded_upload reads one byte more than the limit at most; meanwhile the
\* loop serves others.
Read(u) ==
  /\ pc[u] = "idle" /\ LoopFree(u)
  /\ \E n \in 0..(MaxBytes + 1) : size' = [size EXCEPT ![u] = n]
  /\ Goto(u, "read")
  /\ UNCHANGED <<stored, forUpdate, keyShare, loop>>

\* An empty or an oversized file is refused before the lock.
RefuseSize(u) ==
  /\ pc[u] = "read" /\ LoopFree(u)
  /\ size[u] \notin 1..MaxBytes
  /\ Goto(u, "returned")
  /\ UNCHANGED <<stored, forUpdate, keyShare, loop, size>>

\* Mutant: the size of the file is not compared with the limit.
Enter_Unlimited(u) ==
  /\ pc[u] = "read" /\ LoopFree(u)
  /\ size[u] # 0
  /\ loop' = [loop EXCEPT ![ProcessOf[u]] = u]
  /\ Goto(u, "lock")
  /\ UNCHANGED <<stored, forUpdate, keyShare, size>>

\* The rest of the handler runs on the loop without a pause.
Enter(u) ==
  /\ pc[u] = "read" /\ LoopFree(u)
  /\ size[u] \in 1..MaxBytes
  /\ loop' = [loop EXCEPT ![ProcessOf[u]] = u]
  /\ Goto(u, "lock")
  /\ UNCHANGED <<stored, forUpdate, keyShare, size>>

\* SELECT ... FOR UPDATE waits for every other lock on the row.
Lock(u) ==
  /\ pc[u] = "lock"
  /\ forUpdate = Nobody /\ keyShare = {}
  /\ forUpdate' = u
  /\ Goto(u, "measure")
  /\ UNCHANGED <<stored, keyShare, loop, size>>

\* Mutant: the quota is compared with what is stored, without the new file.
Fits_IgnoresSize(u) == stored <= Quota

Fits(u) == stored + size[u] <= Quota

\* attachment_usage_bytes: the sum as committed now.
Measure(u) ==
  /\ pc[u] = "measure" /\ Fits(u)
  /\ Goto(u, "store")
  /\ UNCHANGED <<stored, forUpdate, keyShare, loop, size>>

\* Over the quota: the handler raises, and its session is yet to be closed.
RefuseQuota(u) ==
  /\ pc[u] = "measure" /\ ~Fits(u)
  /\ LeaveLoop(u)
  /\ Goto(u, "returned")
  /\ UNCHANGED <<stored, forUpdate, keyShare, size>>

\* The INSERTs of the attachment and its audit event, and the commit.
Store(u) ==
  /\ pc[u] = "store"
  /\ stored' = stored + size[u]
  /\ Release(u)
  /\ LeaveLoop(u)
  /\ Goto(u, "returned")
  /\ UNCHANGED size

\* The database connection is lost: the handler raises, its locks are gone.
Lose(r) ==
  /\ pc[r] \in {"insert", "commit", "lock", "measure", "store"}
  /\ Release(r)
  /\ IF r \in Uploads THEN LeaveLoop(r) ELSE loop' = loop
  /\ Goto(r, "returned")
  /\ UNCHANGED <<stored, size>>

\* get_db's exit: the loop sends db.close() to a thread, which then needs
\* the loop no more.
SendClose(r) ==
  /\ pc[r] = "returned" /\ LoopFree(r)
  /\ Goto(r, "close")
  /\ UNCHANGED <<stored, forUpdate, keyShare, loop, size>>

\* Mutant: the session's connection goes back with its transaction open.
Close_KeepsTransaction(r) ==
  /\ pc[r] = "close"
  /\ Goto(r, "answered")
  /\ UNCHANGED <<stored, forUpdate, keyShare, loop, size>>

\* The thread rolls back what the session has not committed.
Close(r) ==
  /\ pc[r] = "close"
  /\ Release(r)
  /\ Goto(r, "answered")
  /\ UNCHANGED <<stored, loop, size>>

Upload(u) ==
  \/ Read(u) \/ RefuseSize(u) \/ Enter(u)
  \/ Lock(u) \/ Measure(u) \/ RefuseQuota(u) \/ Store(u)

Proceed(r) ==
  \/ Insert(r) \/ EndWriter(r)
  \/ r \in Uploads /\ pc[r] # "idle" /\ Upload(r)
  \/ SendClose(r) \/ Close(r)

Next ==
  \E r \in Requests :
    \/ Accept(r) \/ Insert(r) \/ EndWriter(r)
    \/ r \in Uploads /\ Upload(r)
    \/ Lose(r)
    \/ SendClose(r) \/ Close(r)

Spec == Init /\ [][Next]_vars

\* Threads keep running and a free loop serves every request that is ready:
\* strong fairness, since requests take turns on the loop.
FairSpec == Spec /\ \A r \in Requests : SF_vars(Proceed(r))
-----------------------------------------------------------------------------
Labels == {"idle", "insert", "commit", "read", "lock", "measure", "store",
           "returned", "close", "answered"}

\* The labels of an upload that occupies its loop.
Inside == {"lock", "measure", "store"}

\* Besides the types: the two locks exclude each other, and a loop is inside
\* an upload exactly while the upload says so.
TypeOK ==
  /\ stored \in Nat
  /\ forUpdate \in Uploads \cup {Nobody}
  /\ keyShare \subseteq Writers \cup Listings
  /\ loop \in [Processes -> Uploads \cup {Nobody}]
  /\ pc \in [Requests -> Labels]
  /\ size \in [Uploads -> Nat]
  /\ \A u \in Uploads : pc[u] \notin {"insert", "commit"}
  /\ forUpdate # Nobody => keyShare = {}
  /\ \A u \in Uploads : loop[ProcessOf[u]] = u <=> pc[u] \in Inside

\* Uploads of any number of processes never store more than the quota.
WithinQuota == stored <= Quota

\* What makes WithinQuota inductive: the upload past the check holds the lock,
\* so the sum it compared is still the sum.
ChecksAreCurrent ==
  \A u \in Uploads :
    /\ pc[u] \in {"measure", "store"} => forUpdate = u
    /\ pc[u] \in Inside => size[u] \in 1..MaxBytes
    /\ pc[u] = "store" => stored + size[u] <= Quota

\* Uploads, however they interleave, charge the ledger one at a time.
Ledger == INSTANCE QuotaLedger
ImplementsLedger == Ledger!Spec

\* api/v1/health.py, of GET /health: liveness means the process is up, and
\* never touches dependencies.  The loop that answers it always comes back
\* from the upload it is inside of, whatever locks others hold.
LoopComesBack == \A p \in Processes : []<>(loop[p] = Nobody)
=============================================================================
