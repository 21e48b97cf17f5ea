------------------------------ MODULE SlaClock ------------------------------
(***************************************************************************)
(* The SLA clock of one ticket and the sessions that evaluate it.          *)
(*                                                                         *)
(* A ticket has two objectives, each with a deadline counted from the      *)
(* ticket's creation (time 0) and stopped by its first event: an outbound  *)
(* message, or a transition to resolved or closed.  The ticket_slas row    *)
(* remembers the deadline, the time of that event and one flag for each    *)
(* kind of notification; it is created the first time anybody looks.       *)
(*                                                                         *)
(* Three kinds of session load the row, decide on that copy and commit the *)
(* columns they changed: the scheduler's workers, which hold a PostgreSQL  *)
(* advisory lock, callers of POST /sla/evaluate, which do not, and readers *)
(* of GET /tickets/{id}/sla, which refresh the row but notify nobody.      *)
(***************************************************************************)
EXTENDS Naturals, FiniteSets

CONSTANTS
  Objectives,   \* "first_response" and "resolution"
  Schedulers,   \* processes running workers/sla_scheduler.py
  Callers,      \* requests of POST /sla/evaluate
  Readers,      \* requests of GET /tickets/{id}/sla
  Nobody,       \* the advisory lock is free
  Policies,     \* targets a supervisor may set
  DefaultSla,   \* _DEFAULT_SLA of the ticket's priority
  NoRow,        \* a row that does not exist yet
  NoTime,       \* a NULL timestamp
  MaxTime,      \* bound of the clock
  MaxSenders,   \* stamped events that may await their commit at one time
  MaxEvents     \* bound of the events of one objective

Evaluators == Schedulers \cup Callers
Sessions   == Evaluators \cup Readers
PolicyRows == [minutes : [Objectives -> Nat], warning : Nat]
SlaRows    == [due      : [Objectives -> Nat],
               at       : [Objectives -> Nat \cup {NoTime}],
               warned   : SUBSET Objectives,
               breached : SUBSET Objectives]

ASSUME SlaConstants ==
  /\ Nobody \notin Schedulers
  /\ Schedulers \cap Callers = {} /\ Readers \cap Evaluators = {}
  /\ IsFiniteSet(Callers)
  /\ Policies \subseteq PolicyRows /\ DefaultSla \in PolicyRows
  /\ NoTime \notin Nat
  /\ NoRow \notin PolicyRows /\ NoRow \notin SlaRows
  /\ MaxTime \in Nat /\ MaxSenders \in Nat /\ MaxEvents \in Nat

VARIABLES
  clock,     \* minutes since the ticket was created
  policy,    \* the sla_policies row of the ticket's priority, or NoRow
  sla,       \* the ticket_slas row, or NoRow
  events,    \* events[o]: created_at of the committed events of objective o
  sending,   \* <<o, t>>: events stamped by a request yet to commit
  firsts,    \* firsts[o]: what min(created_at) of objective o has ever been (history)
  notified,  \* notified[o]: how many notifications of each kind were created
  holder,    \* the scheduler that holds the advisory lock
  pc,        \* next step of each session
  now,       \* the instant an evaluator compares deadlines with
  made,      \* rows each session has inserted and not committed
  window,    \* warning minutes of the policy a session holds with a row it made
  loaded,    \* the ticket_slas row as a session loaded (or made) it
  draft      \* that row with the session's changes

vars == <<clock, policy, sla, events, sending, firsts, notified, holder,
          pc, now, made, window, loaded, draft>>

world == <<clock, policy, sla, events, sending, firsts, notified>>
-----------------------------------------------------------------------------
\* Mutant: the history is read newest first.
Earliest_Newest(T) == CHOOSE t \in T : \A u \in T : u <= t

\* min(created_at): the first row of ORDER BY created_at.
Earliest(T) == CHOOSE t \in T : \A u \in T : t <= u

\* attach_sla: deadlines count from the ticket's creation, not from now.
Attached(p) ==
  [due      |-> p.minutes,
   at       |-> [o \in Objectives |-> NoTime],
   warned   |-> {},
   breached |-> {}]

\* ensure_policy: the row, or the default about to be inserted.
Ensured == IF policy = NoRow THEN DefaultSla ELSE policy

\* Mutant: the stop time is taken, the breach flag of an earlier evaluation kept.
Refreshed_KeepsVerdict(row) ==
  LET found == {o \in Objectives : row.at[o] = NoTime /\ events[o] # {}}
      late  == {o \in found : Earliest(events[o]) > row.due[o]}
  IN [row EXCEPT
        !.at = [o \in Objectives |-> IF o \in found THEN Earliest(events[o]) ELSE @[o]],
        !.breached = @ \cup late]

\* Mutant: an objective already marked breached is skipped.
Refreshed_SkipsBreached(row) ==
  LET found == {o \in Objectives \ row.breached : row.at[o] = NoTime /\ events[o] # {}}
      late  == {o \in found : Earliest(events[o]) > row.due[o]}
  IN [row EXCEPT
        !.at = [o \in Objectives |-> IF o \in found THEN Earliest(events[o]) ELSE @[o]],
        !.breached = (@ \ found) \cup late]

\* _refresh_sla_from_history: an objective without a stop time takes the
\* earliest committed event, and the verdict that goes with it.
Refreshed(row) ==
  LET found == {o \in Objectives : row.at[o] = NoTime /\ events[o] # {}}
      late  == {o \in found : Earliest(events[o]) > row.due[o]}
  IN [row EXCEPT
        !.at = [o \in Objectives |-> IF o \in found THEN Earliest(events[o]) ELSE @[o]],
        !.breached = (@ \ found) \cup late]

\* The warning window of the row's policy: db.get finds the policy a session
\* attached in its identity map, and reads any other one now.
WarningDelta(e) == IF "sla" \in made[e] THEN window[e] ELSE policy.warning

\* The decisions of evaluate_sla on a refreshed row: breach first, and a
\* warning only where this evaluation announces no breach.
Overdue(e, row) ==
  {o \in Objectives : row.at[o] = NoTime /\ now[e] >= row.due[o] /\ o \notin row.breached}

Approaching(e, row) ==
  {o \in Objectives \ Overdue(e, row) :
     /\ row.at[o] = NoTime
     /\ now[e] + WarningDelta(e) >= row.due[o]
     /\ o \notin row.warned}

Evaluated(e, row) ==
  [row EXCEPT !.breached = @ \cup Overdue(e, row),
              !.warned   = @ \cup Approaching(e, row)]

\* The notifications session e inserts are those of the flags it sets on an
\* open objective.
Announces(e, o) ==
  [warning |-> IF o \in draft[e].warned \ loaded[e].warned THEN 1 ELSE 0,
   breach  |-> IF o \in draft[e].breached \ loaded[e].breached
                    /\ draft[e].at[o] = NoTime THEN 1 ELSE 0]

\* The UPDATE of the row: only columns whose value differs from the loaded
\* one are written, on the row as it is when the commit takes effect.
Changed(old, new, current) == (current \ (old \ new)) \cup (new \ old)

\* Mutant: every column of the loaded copy is written back.
Merged_WholeRow(e) == draft[e]

Merged(e) ==
  [sla EXCEPT
     !.at = [o \in Objectives |-> IF draft[e].at[o] # loaded[e].at[o]
                                    THEN draft[e].at[o] ELSE @[o]],
     !.warned   = Changed(loaded[e].warned, draft[e].warned, @),
     !.breached = Changed(loaded[e].breached, draft[e].breached, @)]

\* Mutant: ticket_slas has no unique constraint on the ticket.
Conflict_NoConstraint(e) == "policy" \in made[e] /\ policy # NoRow

\* A row this session inserted has meanwhile been committed by another one:
\* the unique constraint rejects the insert.
Conflict(e) ==
  \/ "sla" \in made[e] /\ sla # NoRow
  \/ "policy" \in made[e] /\ policy # NoRow
-----------------------------------------------------------------------------
Init ==
  /\ clock = 0 /\ policy = NoRow /\ sla = NoRow
  /\ events = [o \in Objectives |-> {}] /\ sending = {}
  /\ firsts = [o \in Objectives |-> {}]
  /\ notified = [o \in Objectives |-> [warning |-> 0, breach |-> 0]]
  /\ holder = Nobody
  /\ pc = [e \in Sessions |-> "idle"]
  /\ now = [e \in Sessions |-> 0]
  /\ made = [e \in Sessions |-> {}]
  /\ window = [e \in Sessions |-> 0]
  /\ loaded = [e \in Sessions |-> NoRow]
  /\ draft = [e \in Sessions |-> NoRow]

Tick ==
  /\ clock < MaxTime
  /\ clock' = clock + 1
  /\ UNCHANGED <<policy, sla, events, sending, firsts, notified, holder, pc, now, made, window, loaded, draft>>

\* upsert_policy; existing ticket_slas rows keep their deadlines.
UpsertPolicy(p) ==
  /\ \A o \in Objectives : p.warning < p.minutes[o]
  /\ policy' = p
  /\ UNCHANGED <<clock, sla, events, sending, firsts, notified, holder, pc, now, made, window, loaded, draft>>

\* A request inserts an outbound message, or the audit event of a transition
\* to resolved or closed: created_at is taken here, readers see it later.
Stamp(o) ==
  /\ Cardinality(sending) < MaxSenders
  /\ Cardinality(events[o] \cup {t \in 0..MaxTime : <<o, t>> \in sending}) < MaxEvents
  /\ sending' = sending \cup {<<o, clock>>}
  /\ UNCHANGED <<clock, policy, sla, events, firsts, notified, holder, pc, now, made, window, loaded, draft>>

\* Its commit.
Publish(m) ==
  /\ m \in sending
  /\ events' = [events EXCEPT ![m[1]] = @ \cup {m[2]}]
  /\ firsts' = [firsts EXCEPT ![m[1]] =
                   @ \cup {t \in events'[m[1]] : \A u \in events'[m[1]] : t <= u}]
  /\ sending' = sending \ {m}
  /\ UNCHANGED <<clock, policy, sla, notified, holder, pc, now, made, window, loaded, draft>>

\* Its rollback.
Drop(m) ==
  /\ m \in sending
  /\ sending' = sending \ {m}
  /\ UNCHANGED <<clock, policy, sla, events, firsts, notified, holder, pc, now, made, window, loaded, draft>>

\* Mutant: run_once goes on when the advisory lock is taken.
Start_IgnoresLock(e) ==
  /\ pc[e] = "idle"
  /\ holder' = IF e \in Schedulers /\ holder = Nobody THEN e ELSE holder
  /\ IF sla = NoRow
       THEN /\ loaded' = [loaded EXCEPT ![e] = Attached(Ensured)]
            /\ made' = [made EXCEPT ![e] = {"sla"} \cup IF policy = NoRow THEN {"policy"} ELSE {}]
            /\ window' = [window EXCEPT ![e] = Ensured.warning]
       ELSE UNCHANGED <<loaded, made, window>>
  /\ now' = [now EXCEPT ![e] = IF e \in Evaluators THEN clock ELSE 0]
  /\ pc' = [pc EXCEPT ![e] = "load"]
  /\ UNCHANGED <<world, draft>>

\* A session starts: a scheduler needs the advisory lock (one that does not
\* get it skips the cycle).  A missing row is materialised, with its policy,
\* inside the session's transaction; then an evaluator reads the clock.
Start(e) ==
  /\ pc[e] = "idle"
  /\ IF e \in Schedulers THEN holder = Nobody /\ holder' = e ELSE UNCHANGED holder
  /\ IF sla = NoRow
       THEN /\ loaded' = [loaded EXCEPT ![e] = Attached(Ensured)]
            /\ made' = [made EXCEPT ![e] = {"sla"} \cup IF policy = NoRow THEN {"policy"} ELSE {}]
            /\ window' = [window EXCEPT ![e] = Ensured.warning]
       ELSE UNCHANGED <<loaded, made, window>>
  /\ now' = [now EXCEPT ![e] = IF e \in Evaluators THEN clock ELSE 0]
  /\ pc' = [pc EXCEPT ![e] = "load"]
  /\ UNCHANGED <<world, draft>>

\* list_active_slas, or get_ticket_sla: a row this session made is already
\* in its identity map.
Load(e) ==
  /\ pc[e] = "load"
  /\ loaded' = [loaded EXCEPT ![e] = IF "sla" \in made[e] THEN @ ELSE sla]
  /\ pc' = [pc EXCEPT ![e] = "decide"]
  /\ UNCHANGED <<world, holder, now, made, window, draft>>

Decide(e) ==
  /\ pc[e] = "decide"
  /\ LET row == Refreshed(loaded[e])
     IN draft' = [draft EXCEPT ![e] = IF e \in Evaluators THEN Evaluated(e, row) ELSE row]
  /\ pc' = [pc EXCEPT ![e] = "commit"]
  /\ UNCHANGED <<world, holder, now, made, window, loaded>>

\* Mutant: the session goes back to the pool with its advisory lock held.
EndSession_KeepsLock(e) ==
  /\ holder' = holder
  /\ pc' = [pc EXCEPT ![e] = "idle"]
  /\ now' = [now EXCEPT ![e] = 0]
  /\ made' = [made EXCEPT ![e] = {}]
  /\ window' = [window EXCEPT ![e] = 0]
  /\ loaded' = [loaded EXCEPT ![e] = NoRow]
  /\ draft' = [draft EXCEPT ![e] = NoRow]

\* The session closes: the lock is released, unsaved changes are gone.
EndSession(e) ==
  /\ holder' = IF holder = e THEN Nobody ELSE holder
  /\ pc' = [pc EXCEPT ![e] = "idle"]
  /\ now' = [now EXCEPT ![e] = 0]
  /\ made' = [made EXCEPT ![e] = {}]
  /\ window' = [window EXCEPT ![e] = 0]
  /\ loaded' = [loaded EXCEPT ![e] = NoRow]
  /\ draft' = [draft EXCEPT ![e] = NoRow]

\* Mutant: the default policy the deadlines came from is not inserted.
Commit_ForgetsPolicy(e) ==
  /\ pc[e] = "commit" /\ ~Conflict(e)
  /\ sla' = IF "sla" \in made[e] THEN draft[e] ELSE Merged(e)
  /\ notified' = [o \in Objectives |->
                    [warning |-> notified[o].warning + Announces(e, o).warning,
                     breach  |-> notified[o].breach + Announces(e, o).breach]]
  /\ EndSession(e)
  /\ UNCHANGED <<clock, policy, events, sending, firsts>>

\* Row, policy, flags and notifications become visible together.
Commit(e) ==
  /\ pc[e] = "commit" /\ ~Conflict(e)
  /\ sla' = IF "sla" \in made[e] THEN draft[e] ELSE Merged(e)
  /\ policy' = IF "policy" \in made[e] THEN DefaultSla ELSE policy
  /\ notified' = [o \in Objectives |->
                    [warning |-> notified[o].warning + Announces(e, o).warning,
                     breach  |-> notified[o].breach + Announces(e, o).breach]]
  /\ EndSession(e)
  /\ UNCHANGED <<clock, events, sending, firsts>>

\* IntegrityError: the whole evaluation is rolled back and left to the next
\* cycle (evaluate_all_workspaces logs it and goes on).
Reject(e) ==
  /\ pc[e] = "commit" /\ Conflict(e)
  /\ EndSession(e)
  /\ UNCHANGED world

\* Any other failure before the commit: restart, lost connection, deadlock.
Fail(e) ==
  /\ pc[e] # "idle"
  /\ EndSession(e)
  /\ UNCHANGED world

Session(e) == Start(e) \/ Load(e) \/ Decide(e) \/ Commit(e) \/ Reject(e)

Next ==
  \/ Tick
  \/ \E p \in Policies : UpsertPolicy(p)
  \/ \E o \in Objectives : Stamp(o)
  \/ \E m \in sending : Publish(m) \/ Drop(m)
  \/ \E e \in Sessions : Session(e) \/ Fail(e)

Spec == Init /\ [][Next]_vars

\* The scheduler's loop starts cycle after cycle (main catches every error);
\* its failures are transient, so a step it keeps reaching is taken.
FairSpec ==
  /\ Spec
  /\ WF_vars(Tick)
  /\ \A e \in Schedulers :
       /\ WF_vars(Start(e)) /\ WF_vars(Reject(e))
       /\ SF_vars(Load(e)) /\ SF_vars(Decide(e)) /\ SF_vars(Commit(e))
-----------------------------------------------------------------------------
\* What a session holds at each step: the row it made, with its policy, or the
\* assurance that there is one to load; then the loaded row; then its draft.
HoldsRows(e) ==
  /\ pc[e] = "idle" => made[e] = {}
  /\ pc[e] # "idle" => IF "sla" \in made[e]
                         THEN "policy" \in made[e] \/ policy # NoRow
                         ELSE sla # NoRow
  /\ pc[e] = "load" /\ "sla" \in made[e] => loaded[e] \in SlaRows
  /\ pc[e] \in {"decide", "commit"} => loaded[e] \in SlaRows
  /\ pc[e] = "commit" => draft[e] \in SlaRows

TypeOK ==
  /\ clock \in Nat
  /\ policy \in PolicyRows \cup {NoRow}
  /\ sla \in SlaRows \cup {NoRow}
  /\ sla # NoRow => policy # NoRow
  /\ events \in [Objectives -> SUBSET Nat]
  /\ sending \subseteq Objectives \X Nat
  /\ firsts \in [Objectives -> SUBSET Nat]
  /\ notified \in [Objectives -> [warning : Nat, breach : Nat]]
  /\ holder \in Schedulers \cup {Nobody}
  /\ pc \in [Sessions -> {"idle", "load", "decide", "commit"}]
  /\ now \in [Sessions -> Nat]
  /\ made \in [Sessions -> SUBSET {"sla", "policy"}]
  /\ window \in [Sessions -> Nat]
  /\ loaded \in [Sessions -> SlaRows \cup {NoRow}]
  /\ draft \in [Sessions -> SlaRows \cup {NoRow}]
  /\ \A e \in Sessions : HoldsRows(e)

\* The evaluators that can be between load and commit at one time: every
\* caller of POST /sla/evaluate, and the scheduler that holds the lock.
Announcers == Cardinality(Callers) + IF Schedulers = {} THEN 0 ELSE 1

\* However evaluations, page views, restarts and failures interleave and
\* however often they are repeated, an objective gets at most one warning and
\* one breach notification from each evaluator that can run beside the others:
\* exactly the once of ADR-008, decision 7, while only schedulers evaluate, and
\* one more for each request of POST /sla/evaluate that overlaps.
NotificationsBounded ==
  \A o \in Objectives : notified[o].warning <= Announcers /\ notified[o].breach <= Announcers

\* Flags and notifications never come apart: a warning flag is set exactly
\* when its warning exists, a breach that was announced stays flagged while
\* the objective is open, and an open flagged breach was announced.
FlagsMatchNotifications ==
  \A o \in Objectives :
    IF sla = NoRow
      THEN notified[o].warning = 0 /\ notified[o].breach = 0
      ELSE /\ o \in sla.warned <=> notified[o].warning > 0
           /\ sla.at[o] = NoTime => (o \in sla.breached <=> notified[o].breach > 0)

\* What ADR-008, decision 5, comes to where requests commit their events out
\* of the order of their stamps: a stop time is the time of a committed event,
\* and was the earliest one of its objective when a session read the history,
\* whoever evaluates and whoever overwrites whom.
StopsWereEarliest ==
  sla # NoRow => \A o \in Objectives : sla.at[o] # NoTime => sla.at[o] \in firsts[o]

\* ADR-008, decision 5, as it stands: a stop time is the earliest event of the
\* objective.  Two requests that commit in the other order break it: the event
\* with the earlier stamp becomes visible when the stop time has been taken.
StopsAtEarliestEvent ==
  sla # NoRow =>
    \A o \in Objectives : sla.at[o] # NoTime =>
      sla.at[o] \in events[o] /\ \A t \in events[o] : sla.at[o] <= t

\* ADR-008, decision 6: the verdict of a stopped objective can be recomputed
\* from its history.
VerdictMatchesHistory ==
  sla # NoRow =>
    \A o \in Objectives : sla.at[o] # NoTime =>
      (o \in sla.breached <=> sla.at[o] > sla.due[o])

\* A deadline, once materialised, is not moved by a policy change, a second
\* materialisation or an evaluation; no stop time is taken back.
DeadlinesNeverMove ==
  [][sla # NoRow =>
       /\ sla' # NoRow /\ sla'.due = sla.due
       /\ \A o \in Objectives : sla.at[o] # NoTime => sla'.at[o] # NoTime]_sla

\* An objective that was announced breached gets no further notification: no
\* warning that its deadline is approaching (architecture.md, Operations).
NoWarningAfterBreach ==
  [][\A o \in Objectives :
       notified'[o].warning > notified[o].warning => notified[o].breach = 0]_notified

\* Every objective is settled: its event is recorded, or its breach announced.
EveryObjectiveSettles ==
  \A o \in Objectives :
    <>(\/ notified[o].breach > 0
       \/ sla # NoRow /\ sla.at[o] # NoTime)

\* Every committed event is recorded as a stop time in the end.
EventsAreRecorded ==
  \A o \in Objectives : events[o] # {} ~> (sla # NoRow /\ sla.at[o] # NoTime)
=============================================================================
