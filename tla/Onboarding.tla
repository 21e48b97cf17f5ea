----------------------------- MODULE Onboarding -----------------------------
(***************************************************************************)
(* POST /auth/register, /auth/bootstrap and /workspaces.  Each request     *)
(* looks for rows and inserts the ones it does not find, in one READ       *)
(* COMMITTED transaction.  Unique indexes decide between two that insert   *)
(* the same: the second waits until the first has ended, and fails if it   *)
(* committed.  Waiting in a circle is ended by PostgreSQL, which fails one *)
(* of the requests.                                                        *)
(*                                                                         *)
(* A row is its key, a pair: <<email, 0>> of an account, <<code, 0>> of a   *)
(* permission, role or grant, or the slug <<name, number>> of a workspace. *)
(* The other rows of a transaction (membership, audit event) have keys     *)
(* that no other transaction inserts.                                      *)
(***************************************************************************)
EXTENDS Naturals, Sequences, FiniteSets

CONSTANTS
  Registers, Bootstraps, Creators,  \* requests of each kind
  EmailOf,      \* key of the account that a request makes, or is made by
  NameOf,       \* the name of the workspace, of bootstraps and creators
  ProcessOf,    \* the API process that serves each request
  SystemRows,   \* keys of the system roles, permissions and grants
  CreateOrder,  \* CreateOrder[p]: the order in which process p goes
                \* through them; permissions are in a set of strings, whose
                \* order differs from process to process
  Free, Kept    \* a key that has no row, or a committed one

Requests == Registers \cup Bootstraps \cup Creators
Founders == Bootstraps \cup Creators
Emails == {EmailOf[r] : r \in Requests}
Names == {NameOf[r] : r \in Founders}
Numbers == 1..Cardinality(Founders)
Slugs == Names \X Numbers
Keys == SystemRows \cup Emails \cup Slugs

ASSUME OnboardingConstants ==
  /\ Registers \cap Founders = {} /\ Bootstraps \cap Creators = {}
  /\ IsFiniteSet(Founders)
  /\ SystemRows # {}
  /\ Slugs \cap (SystemRows \cup Emails) = {} /\ SystemRows \cap Emails = {}
  /\ Free # Kept /\ Free \notin Requests /\ Kept \notin Requests
  /\ \A r \in Founders :
       /\ CreateOrder[ProcessOf[r]] \in Seq(SystemRows)
       /\ \A k \in SystemRows : \E i \in DOMAIN CreateOrder[ProcessOf[r]] :
            CreateOrder[ProcessOf[r]][i] = k

VARIABLES
  holder,  \* holder[k]: Free, Kept, or the request that has inserted the row
           \* and not yet committed
  pc,      \* next step of each request
  at,      \* position in CreateOrder, then the number of the slug
  rivals   \* history: the requests that have overlapped each one

vars == <<holder, pc, at, rivals>>

\* The statement of r sees the row of k.
Sees(r, k) == holder[k] \in {Kept, r}

\* The key that r looks for or inserts at its step.
KeyOf(r) ==
  CASE pc[r] \in {"findRow", "insertRow"} -> CreateOrder[ProcessOf[r]][at[r]]
    [] pc[r] \in {"findUser", "insertUser"} -> EmailOf[r]
    [] OTHER -> <<NameOf[r], at[r]>>

Goto(r, label) == pc' = [pc EXCEPT ![r] = label]

Ended == {"done", "refused", "failed"}

Begun(r) == pc[r] \notin {"idle"} \cup Ended
-----------------------------------------------------------------------------
\* Nothing is stored, or some accounts are, with the system rows or without.
Init ==
  /\ \E users \in SUBSET Emails, roles \in BOOLEAN :
       /\ roles => users # {}
       /\ holder = [k \in Keys |->
            IF k \in users \/ (roles /\ k \in SystemRows) THEN Kept ELSE Free]
  /\ pc = [r \in Requests |-> "idle"]
  /\ at = [r \in Requests |-> 1]
  /\ rivals = [r \in Requests |-> {}]

Begin(r) ==
  LET now == {s \in Requests : Begun(s)}
  IN  rivals' = [s \in Requests |->
        IF s = r THEN now
        ELSE IF s \in now THEN rivals[s] \cup {r} ELSE rivals[s]]

\* register_user looks for the account.
Register(r) ==
  /\ r \in Registers /\ pc[r] = "idle" /\ Begin(r)
  /\ Goto(r, "findUser")
  /\ UNCHANGED <<holder, at>>

\* bootstrap_owner goes on if no account exists; this SELECT is all that the
\* request asks of the accounts.
Bootstrap(r) ==
  /\ r \in Bootstraps /\ pc[r] = "idle" /\ Begin(r)
  /\ Goto(r, IF \E e \in Emails : Sees(r, e) THEN "refused" ELSE "findRow")
  /\ UNCHANGED <<holder, at>>

\* create_workspace_for_user, by the user of a committed account.
Create(r) ==
  /\ r \in Creators /\ pc[r] = "idle" /\ Begin(r)
  /\ Sees(r, EmailOf[r])
  /\ Goto(r, "findRow")
  /\ UNCHANGED <<holder, at>>
-----------------------------------------------------------------------------
\* Mutant: the last row is left out.
AfterRow_SkipsLast(r, n) ==
  /\ at' = [at EXCEPT ![r] = IF n + 1 < Len(CreateOrder[ProcessOf[r]]) THEN n + 1 ELSE 1]
  /\ Goto(r, IF n + 1 < Len(CreateOrder[ProcessOf[r]]) THEN "findRow"
             ELSE IF r \in Bootstraps THEN "insertUser" ELSE "findSlug")

\* Where a founder goes after row n of ensure_system_roles.
AfterRow(r, n) ==
  /\ at' = [at EXCEPT ![r] = IF n < Len(CreateOrder[ProcessOf[r]]) THEN n + 1 ELSE 1]
  /\ Goto(r, IF n < Len(CreateOrder[ProcessOf[r]]) THEN "findRow"
             ELSE IF r \in Bootstraps THEN "insertUser" ELSE "findSlug")

FindRow(r) ==
  /\ pc[r] = "findRow"
  /\ IF Sees(r, KeyOf(r)) THEN AfterRow(r, at[r])
     ELSE Goto(r, "insertRow") /\ UNCHANGED at
  /\ UNCHANGED <<holder, rivals>>

FindUser(r) ==
  /\ pc[r] = "findUser"
  /\ Goto(r, IF Sees(r, KeyOf(r)) THEN "refused" ELSE "insertUser")
  /\ UNCHANGED <<holder, at, rivals>>

\* Mutant: the slug of the name is taken without looking for it.
FindSlug_Once(r) ==
  /\ pc[r] = "findSlug"
  /\ Goto(r, "insertSlug")
  /\ UNCHANGED <<holder, at, rivals>>

\* WorkspaceRepository.create counts up to the first slug it does not see.
FindSlug(r) ==
  /\ pc[r] = "findSlug"
  /\ IF Sees(r, KeyOf(r)) THEN at' = [at EXCEPT ![r] = @ + 1] /\ UNCHANGED pc
     ELSE Goto(r, "insertSlug") /\ UNCHANGED at
  /\ UNCHANGED <<holder, rivals>>

\* The INSERT of the key's row, once no other request holds it.
Insert(r) ==
  /\ holder[KeyOf(r)] = Free
  /\ holder' = [holder EXCEPT ![KeyOf(r)] = r]

InsertRow(r) ==
  /\ pc[r] = "insertRow" /\ Insert(r)
  /\ AfterRow(r, at[r])
  /\ UNCHANGED rivals

InsertUser(r) ==
  /\ pc[r] = "insertUser" /\ Insert(r)
  /\ Goto(r, IF r \in Registers THEN "commit" ELSE "findSlug")
  /\ UNCHANGED <<at, rivals>>

InsertSlug(r) ==
  /\ pc[r] = "insertSlug" /\ Insert(r)
  /\ Goto(r, "commit")
  /\ UNCHANGED <<at, rivals>>

Commit(r) ==
  /\ pc[r] = "commit"
  /\ holder' = [k \in Keys |-> IF holder[k] = r THEN Kept ELSE holder[k]]
  /\ Goto(r, "done")
  /\ UNCHANGED <<at, rivals>>
-----------------------------------------------------------------------------
Inserting == {"insertRow", "insertUser", "insertSlug"}

\* The request whose end r waits for.
WaitsFor(r, s) == s # r /\ pc[r] \in Inserting /\ holder[KeyOf(r)] = s

\* Some requests wait in a circle, r among them.
Stuck(r) ==
  \E circle \in SUBSET Requests :
    /\ r \in circle
    /\ \A s \in circle : \E t \in circle : WaitsFor(s, t)
    /\ \A s \in circle : \E t \in circle : WaitsFor(t, s)

\* Mutant: the transaction of a failed request stays open.
Fail_KeepsTransaction(r) ==
  /\ pc[r] \in Inserting
  /\ holder[KeyOf(r)] = Kept \/ Stuck(r)
  /\ Goto(r, "failed")
  /\ UNCHANGED <<holder, at, rivals>>

\* The unique index or the deadlock detector fails the INSERT; the session is
\* closed, which rolls back, and the request is answered with status 500.
Fail(r) ==
  /\ pc[r] \in Inserting
  /\ holder[KeyOf(r)] = Kept \/ Stuck(r)
  /\ holder' = [k \in Keys |-> IF holder[k] = r THEN Free ELSE holder[k]]
  /\ Goto(r, "failed")
  /\ UNCHANGED <<at, rivals>>

Proceed(r) ==
  \/ FindRow(r) \/ FindUser(r) \/ FindSlug(r)
  \/ InsertRow(r) \/ InsertUser(r) \/ InsertSlug(r)
  \/ Commit(r) \/ Fail(r)

Next ==
  \E r \in Requests :
    Register(r) \/ Bootstrap(r) \/ Create(r) \/ Proceed(r)

Spec == Init /\ [][Next]_vars

\* A begun request goes on, and a circle of waits is broken.
FairSpec == Spec /\ \A r \in Requests : WF_vars(Proceed(r))
-----------------------------------------------------------------------------
Labels ==
  Inserting \cup Ended \cup {"idle", "findRow", "findUser", "findSlug", "commit"}

TypeOK ==
  /\ holder \in [Keys -> Requests \cup {Free, Kept}]
  /\ pc \in [Requests -> Labels]
  /\ at \in [Requests -> Nat]
  /\ rivals \in [Requests -> SUBSET Requests]
  /\ \A k \in Keys : holder[k] \in Requests => Begun(holder[k])

\* A request that needed the system rows and is done left them all there.
RolesAreComplete ==
  \A r \in Founders, k \in SystemRows : pc[r] = "done" => holder[k] = Kept

\* Status 500 is for races: alone, a request is done or refused.
OnlyRacesFail == \A r \in Requests : pc[r] = "failed" => rivals[r] # {}

Recorded == INSTANCE Directory WITH
  users <- {e \in Emails : holder[e] = Kept},
  count <- [n \in Names |-> Cardinality({i \in Numbers : holder[<<n, i>>] = Kept})],
  roles <- \A k \in SystemRows : holder[k] = Kept

\* Seen as they commit, the requests add users and workspaces one at a time.
ImplementsDirectory == Recorded!Spec

\* The slugs of a name are numbered without a gap.
SlugsHaveNoGaps ==
  \A n \in Names, i \in Numbers : i > 1 /\ holder[<<n, i>>] = Kept => holder[<<n, i - 1>>] = Kept

\* Every begun request is answered.
RequestsAreAnswered == \A r \in Requests : Begun(r) ~> ~Begun(r)
=============================================================================
