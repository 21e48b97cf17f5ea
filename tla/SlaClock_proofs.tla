--------------------------- MODULE SlaClock_proofs ---------------------------
(***************************************************************************)
(* Proofs about SlaClock, for any number of schedulers, callers, readers   *)
(* and objectives, any policies and any clock.                             *)
(***************************************************************************)
EXTENDS SlaClock, FiniteSetTheorems, WellFoundedInduction, TLAPS

\* The row's stop times only accumulate, and a decision only adds to what the
\* session loaded: stop times, warned flags, and breached flags of objectives
\* that are still open.  A reader adds no flag to an open objective.
Decided(e) ==
  pc[e] = "commit" =>
    /\ \A o \in Objectives : loaded[e].at[o] # NoTime => draft[e].at[o] # NoTime
    /\ loaded[e].warned \subseteq draft[e].warned
    /\ \A o \in Objectives : draft[e].at[o] = NoTime /\ o \in loaded[e].breached =>
         o \in draft[e].breached
    /\ e \in Readers =>
         /\ draft[e].warned = loaded[e].warned
         /\ \A o \in Objectives : draft[e].at[o] = NoTime /\ o \in draft[e].breached =>
              o \in loaded[e].breached

\* A row the session made is empty; of one it loaded, no stop time was taken
\* back since.
LoadedStops(e) ==
  /\ pc[e] # "idle" /\ "sla" \in made[e] =>
       /\ \A o \in Objectives : loaded[e].at[o] = NoTime
       /\ loaded[e].warned = {} /\ loaded[e].breached = {}
  /\ pc[e] \in {"decide", "commit"} /\ "sla" \notin made[e] =>
       \A o \in Objectives : loaded[e].at[o] # NoTime => sla.at[o] # NoTime

RowInv == \A e \in Sessions : Decided(e) /\ LoadedStops(e)

\* The scheduler that runs a cycle holds the advisory lock.
LockInv == \A e \in Schedulers : pc[e] # "idle" => holder = e

\* The evaluators that may yet announce something of objective o: those whose
\* copy of the row is without the flag, and for a breach without the stop time.
HasCopy(e) == pc[e] \in {"decide", "commit"} \/ (pc[e] = "load" /\ "sla" \in made[e])

ReadyToWarn(o) == {e \in Evaluators : HasCopy(e) /\ o \notin loaded[e].warned}

ReadyToBreach(o) ==
  {e \in Evaluators : HasCopy(e) /\ o \notin loaded[e].breached /\ loaded[e].at[o] = NoTime}

\* Once an objective has had its first notification nobody else becomes ready:
\* those that are share out what the bound leaves.
Within(n, R) == n = 0 \/ n + Cardinality(R) <= Announcers

BoundInv ==
  /\ LockInv
  /\ \A o \in Objectives : /\ Within(notified[o].warning, ReadyToWarn(o))
                           /\ Within(notified[o].breach, ReadyToBreach(o))
-----------------------------------------------------------------------------
\* The first of a non-empty set of times is one of them, and before the others.
LEMMA EarliestIn ==
  ASSUME NEW T \in SUBSET Nat, T # {}
  PROVE  Earliest(T) \in T /\ Earliest(T) \in Nat /\ \A t \in T : Earliest(T) <= t
<1> DEFINE less == {x \in Nat \X Nat : x[1] < x[2]}
<1>1. IsWellFoundedOn(less, Nat)
  BY NatLessThanWellFounded DEF OpToRel
<1> HIDE DEF less
<1>2. \E t \in T : \A u \in T : ~ (<<u, t>> \in less)
  BY <1>1, WFMin
<1>3. \A t, u \in Nat : t <= u \/ <<u, t>> \in less
  BY DEF less
<1>4. \E t \in T : \A u \in T : t <= u
  BY <1>2, <1>3, Zenon
<1>5. Earliest(T) \in T /\ \A t \in T : Earliest(T) <= t
  BY <1>4, Zenon DEF Earliest
<1> QED
  BY <1>5

\* A row attached from a policy is an SLA row.
LEMMA AttachedType ==
  ASSUME NEW p \in PolicyRows
  PROVE  /\ Attached(p) \in SlaRows
         /\ \A o \in Objectives : Attached(p).at[o] = NoTime
         /\ Attached(p).warned = {} /\ Attached(p).breached = {}
  BY DEF Attached, PolicyRows, SlaRows

\* A refresh keeps stop times, warned flags, deadlines, and the breached flags
\* of the objectives it leaves open.
LEMMA RefreshedRow ==
  ASSUME TypeOK, NEW row \in SlaRows
  PROVE  /\ Refreshed(row) \in SlaRows
         /\ \A o \in Objectives : row.at[o] # NoTime => Refreshed(row).at[o] # NoTime
         /\ Refreshed(row).warned = row.warned
         /\ \A o \in Objectives : Refreshed(row).at[o] = NoTime =>
              (o \in Refreshed(row).breached <=> o \in row.breached)
<1> DEFINE found == {o \in Objectives : row.at[o] = NoTime /\ events[o] # {}}
           late  == {o \in found : Earliest(events[o]) > row.due[o]}
           at    == [o \in Objectives |-> IF o \in found THEN Earliest(events[o])
                                                          ELSE row.at[o]]
<1>1. \A o \in found : Earliest(events[o]) \in Nat
  BY EarliestIn DEF TypeOK
<1>2. at \in [Objectives -> Nat \cup {NoTime}]
  BY <1>1 DEF SlaRows
<1>3. \A o \in Objectives : o \in found => at[o] # NoTime
  BY <1>1, SlaConstants
<1>4. Refreshed(row) = [row EXCEPT !.at = at, !.breached = (@ \ found) \cup late]
  BY DEF Refreshed
<1>5. Refreshed(row) = [due |-> row.due, at |-> at, warned |-> row.warned,
                        breached |-> (row.breached \ found) \cup late]
  BY <1>4 DEF SlaRows
<1> HIDE DEF at
<1>6. Refreshed(row) \in SlaRows
  BY <1>2, <1>5 DEF SlaRows
<1>7. \A o \in Objectives : row.at[o] # NoTime => at[o] # NoTime
  BY DEF at
<1>8. \A o \in Objectives : at[o] = NoTime =>
        (o \in (row.breached \ found) \cup late <=> o \in row.breached)
  BY <1>3
<1> QED
  BY <1>5, <1>6, <1>7, <1>8

\* An evaluation adds flags to open objectives and changes nothing else.
LEMMA EvaluatedRow ==
  ASSUME NEW e, NEW row \in SlaRows
  PROVE  /\ Evaluated(e, row) \in SlaRows
         /\ Evaluated(e, row).at = row.at
         /\ row.warned \subseteq Evaluated(e, row).warned
         /\ row.breached \subseteq Evaluated(e, row).breached
<1>1. Overdue(e, row) \subseteq Objectives /\ Approaching(e, row) \subseteq Objectives
  BY DEF Overdue, Approaching
<1> DEFINE warned == row.warned \cup Approaching(e, row)
           breached == row.breached \cup Overdue(e, row)
<1>0. Evaluated(e, row) = [row EXCEPT !.breached = breached, !.warned = warned]
  BY DEF Evaluated
<1> HIDE DEF warned, breached
<1>2. Evaluated(e, row) = [due |-> row.due, at |-> row.at,
                           warned |-> warned, breached |-> breached]
  BY <1>0 DEF SlaRows
<1> USE DEF warned, breached
<1>3. /\ row.warned \cup Approaching(e, row) \subseteq Objectives
      /\ row.breached \cup Overdue(e, row) \subseteq Objectives
      /\ row.due \in [Objectives -> Nat]
      /\ row.at \in [Objectives -> Nat \cup {NoTime}]
  BY <1>1 DEF SlaRows
<1>4. Evaluated(e, row) \in SlaRows
  BY <1>2, <1>3 DEF SlaRows
<1> QED
  BY <1>2, <1>4

\* The UPDATE writes an SLA row with the deadlines of the current one.
LEMMA MergedRow ==
  ASSUME NEW e, sla \in SlaRows, draft[e] \in SlaRows, loaded[e] \in SlaRows
  PROVE  Merged(e) =
           [due |-> sla.due,
            at |-> [o \in Objectives |-> IF draft[e].at[o] # loaded[e].at[o]
                                            THEN draft[e].at[o] ELSE sla.at[o]],
            warned |-> Changed(loaded[e].warned, draft[e].warned, sla.warned),
            breached |-> Changed(loaded[e].breached, draft[e].breached, sla.breached)]
         /\ Merged(e) \in SlaRows
<1> DEFINE at == [o \in Objectives |-> IF draft[e].at[o] # loaded[e].at[o]
                                         THEN draft[e].at[o] ELSE sla.at[o]]
           warned == Changed(loaded[e].warned, draft[e].warned, sla.warned)
           breached == Changed(loaded[e].breached, draft[e].breached, sla.breached)
<1>0. Merged(e) = [sla EXCEPT !.at = at, !.warned = warned, !.breached = breached]
  BY DEF Merged
<1> HIDE DEF at, warned, breached
<1>1. Merged(e) = [due |-> sla.due, at |-> at, warned |-> warned, breached |-> breached]
  BY <1>0 DEF SlaRows
<1> USE DEF at, warned, breached
<1>2. [o \in Objectives |-> IF draft[e].at[o] # loaded[e].at[o]
                               THEN draft[e].at[o] ELSE sla.at[o]]
        \in [Objectives -> Nat \cup {NoTime}]
  BY DEF SlaRows
<1>3. /\ Changed(loaded[e].warned, draft[e].warned, sla.warned) \subseteq Objectives
      /\ Changed(loaded[e].breached, draft[e].breached, sla.breached) \subseteq Objectives
  BY DEF Changed, SlaRows
<1> QED
  BY <1>1, <1>2, <1>3 DEF SlaRows
-----------------------------------------------------------------------------
\* The policy a materialisation uses is a policy row.
LEMMA EnsuredType == TypeOK => Ensured \in PolicyRows
  BY SlaConstants DEF TypeOK, Ensured

\* A closed session keeps every variable of the sessions well typed.
LEMMA EndSessionType ==
  ASSUME TypeOK, NEW e \in Sessions, EndSession(e)
  PROVE  /\ holder' \in Schedulers \cup {Nobody}
         /\ pc' \in [Sessions -> {"idle", "load", "decide", "commit"}]
         /\ now' \in [Sessions -> Nat]
         /\ made' \in [Sessions -> SUBSET {"sla", "policy"}]
         /\ window' \in [Sessions -> Nat]
         /\ loaded' \in [Sessions -> SlaRows \cup {NoRow}]
         /\ draft' \in [Sessions -> SlaRows \cup {NoRow}]
         /\ pc'[e] = "idle"
         /\ \A d \in Sessions \ {e} :
              /\ pc'[d] = pc[d] /\ made'[d] = made[d]
              /\ loaded'[d] = loaded[d] /\ draft'[d] = draft[d]
  BY DEF TypeOK, EndSession

\* Rows and policies never disappear, so what the other sessions hold stays
\* good when session e takes a step.
LEMMA OthersHold ==
  ASSUME TypeOK, NEW e \in Sessions, NEW d \in Sessions \ {e},
         pc'[d] = pc[d], made'[d] = made[d], loaded'[d] = loaded[d], draft'[d] = draft[d],
         sla # NoRow => sla' # NoRow, policy # NoRow => policy' # NoRow
  PROVE  HoldsRows(d)'
  BY DEF TypeOK, HoldsRows

\* Every step preserves the types and what each session holds.
LEMMA TypeStep == TypeOK /\ [Next]_vars => TypeOK'
<1> SUFFICES ASSUME TypeOK, [Next]_vars PROVE TypeOK'
  OBVIOUS
<1> USE SlaConstants
<1>1. CASE Tick
  BY <1>1 DEF Tick, TypeOK, HoldsRows
<1>2. ASSUME NEW p \in Policies, UpsertPolicy(p) PROVE TypeOK'
  <2>1. policy' \in PolicyRows
    BY <1>2 DEF UpsertPolicy
  <2> QED
    BY <1>2, <2>1 DEF UpsertPolicy, TypeOK, HoldsRows
<1>3. ASSUME NEW o \in Objectives, Stamp(o) PROVE TypeOK'
  BY <1>3 DEF Stamp, TypeOK, HoldsRows
<1>4. ASSUME NEW m \in sending, Publish(m) PROVE TypeOK'
  <2>1. m[2] \in Nat
    BY DEF TypeOK
  <2>2. events' \in [Objectives -> SUBSET Nat]
    BY <1>4, <2>1 DEF Publish, TypeOK
  <2> QED
    BY <1>4, <2>2 DEF Publish, TypeOK, HoldsRows
<1>5. ASSUME NEW m \in sending, Drop(m) PROVE TypeOK'
  BY <1>5 DEF Drop, TypeOK, HoldsRows
<1>6. ASSUME NEW e \in Sessions, Start(e) PROVE TypeOK'
  <2>1. Ensured.warning \in Nat /\ Attached(Ensured) \in SlaRows
    BY EnsuredType, AttachedType DEF PolicyRows
  <2>2. /\ loaded' \in [Sessions -> SlaRows \cup {NoRow}]
        /\ made' \in [Sessions -> SUBSET {"sla", "policy"}]
        /\ window' \in [Sessions -> Nat]
    BY <1>6, <2>1 DEF Start, TypeOK
  <2>3. /\ holder' \in Schedulers \cup {Nobody}
        /\ pc' \in [Sessions -> {"idle", "load", "decide", "commit"}]
        /\ now' \in [Sessions -> Nat]
    BY <1>6 DEF Start, TypeOK
  <2>4. HoldsRows(e)'
    <3>1. CASE sla = NoRow
      BY <1>6, <2>1, <3>1 DEF Start, TypeOK, HoldsRows, world
    <3>2. CASE sla # NoRow
      <4>1. pc'[e] = "load" /\ made' = made /\ loaded' = loaded /\ sla' = sla /\ policy' = policy
        BY <1>6, <3>2 DEF Start, TypeOK, world
      <4>2. "sla" \notin made[e]
        BY <1>6 DEF Start, TypeOK, HoldsRows
      <4> QED
        BY <3>2, <4>1, <4>2 DEF HoldsRows
    <3> QED
      BY <3>1, <3>2
  <2>5. \A d \in Sessions \ {e} : HoldsRows(d)'
    BY <1>6, OthersHold DEF Start, TypeOK, world
  <2> QED
    BY <1>6, <2>2, <2>3, <2>4, <2>5 DEF Start, TypeOK, world
<1>7. ASSUME NEW e \in Sessions, Load(e) PROVE TypeOK'
  <2>1. loaded' \in [Sessions -> SlaRows \cup {NoRow}]
    BY <1>7 DEF Load, TypeOK
  <2>2. HoldsRows(e)'
    BY <1>7 DEF Load, TypeOK, HoldsRows, world
  <2>3. \A d \in Sessions \ {e} : HoldsRows(d)'
    BY <1>7, OthersHold DEF Load, TypeOK, world
  <2> QED
    BY <1>7, <2>1, <2>2, <2>3 DEF Load, TypeOK, world
<1>8. ASSUME NEW e \in Sessions, Decide(e) PROVE TypeOK'
  <2> DEFINE row == Refreshed(loaded[e])
  <2>1. row \in SlaRows /\ Evaluated(e, row) \in SlaRows
    BY <1>8, RefreshedRow, EvaluatedRow DEF Decide, TypeOK, HoldsRows
  <2>2. draft' = [draft EXCEPT ![e] = IF e \in Evaluators THEN Evaluated(e, row) ELSE row]
    BY <1>8 DEF Decide
  <2> HIDE DEF row
  <2>3. draft' \in [Sessions -> SlaRows \cup {NoRow}] /\ draft'[e] \in SlaRows
    BY <2>1, <2>2 DEF TypeOK
  <2>4. HoldsRows(e)'
    BY <1>8, <2>3 DEF Decide, TypeOK, HoldsRows, world
  <2>5. \A d \in Sessions \ {e} : HoldsRows(d)'
    BY <1>8, OthersHold DEF Decide, TypeOK, world
  <2> QED
    BY <1>8, <2>3, <2>4, <2>5 DEF Decide, TypeOK, world
<1>9. ASSUME NEW e \in Sessions, Commit(e) PROVE TypeOK'
  <2>1. sla' \in SlaRows /\ policy' \in PolicyRows
    <3>1. draft[e] \in SlaRows /\ loaded[e] \in SlaRows
      BY <1>9 DEF Commit, TypeOK, HoldsRows
    <3>2. "sla" \notin made[e] => sla \in SlaRows /\ Merged(e) \in SlaRows
      BY <1>9, <3>1, MergedRow DEF Commit, TypeOK, HoldsRows
    <3>3. sla' \in SlaRows
      BY <1>9, <3>1, <3>2 DEF Commit
    <3>4. policy' \in PolicyRows
      BY <1>9 DEF Commit, TypeOK, HoldsRows
    <3> QED
      BY <3>3, <3>4
  <2>2. notified' \in [Objectives -> [warning : Nat, breach : Nat]]
    BY <1>9 DEF Commit, TypeOK, Announces
  <2>3. \A d \in Sessions \ {e} : HoldsRows(d)'
    BY <1>9, <2>1, EndSessionType, OthersHold DEF Commit
  <2>4. HoldsRows(e)'
    BY <1>9 DEF Commit, EndSession, TypeOK, HoldsRows
  <2> QED
    BY <1>9, <2>1, <2>2, <2>3, <2>4, EndSessionType DEF Commit, TypeOK
<1>10. ASSUME NEW e \in Sessions, EndSession(e), UNCHANGED world PROVE TypeOK'
  <2>1. \A d \in Sessions \ {e} : HoldsRows(d)'
    BY <1>10, EndSessionType, OthersHold DEF world
  <2>2. HoldsRows(e)'
    BY <1>10 DEF EndSession, TypeOK, HoldsRows
  <2> QED
    BY <1>10, <2>1, <2>2, EndSessionType DEF TypeOK, world
<1>11. CASE UNCHANGED vars
  BY <1>11 DEF vars, TypeOK, HoldsRows
<1> QED
  BY <1>1, <1>2, <1>3, <1>4, <1>5, <1>6, <1>7, <1>8, <1>9, <1>10, <1>11
  DEF Next, Session, Reject, Fail

\* Every variable keeps its type, and no session reads a row it does not hold.
THEOREM SlaTypeCorrect == Spec => []TypeOK
<1>1. Init => TypeOK
  BY SlaConstants DEF Init, TypeOK, HoldsRows
<1> QED
  BY <1>1, TypeStep, PTL DEF Spec
-----------------------------------------------------------------------------
\* The stop times and flags that a step leaves in the row: what the commit of
\* a session that loaded it adds, and nothing taken away.
LEMMA MergedKeepsStops ==
  ASSUME TypeOK, RowInv, NEW e \in Sessions, pc[e] = "commit", "sla" \notin made[e]
  PROVE  /\ sla # NoRow /\ Merged(e) \in SlaRows /\ Merged(e).due = sla.due
         /\ \A o \in Objectives : sla.at[o] # NoTime => Merged(e).at[o] # NoTime
         /\ \A o \in Objectives : Merged(e).at[o] = NoTime =>
              sla.at[o] = NoTime /\ draft[e].at[o] = NoTime
         /\ Merged(e).warned = Changed(loaded[e].warned, draft[e].warned, sla.warned)
         /\ Merged(e).breached = Changed(loaded[e].breached, draft[e].breached, sla.breached)
<1>1. sla \in SlaRows /\ sla # NoRow /\ draft[e] \in SlaRows /\ loaded[e] \in SlaRows
  BY DEF TypeOK, HoldsRows
<1>2. \A o \in Objectives :
        Merged(e).at[o] = IF draft[e].at[o] # loaded[e].at[o] THEN draft[e].at[o] ELSE sla.at[o]
  BY <1>1, MergedRow
<1>3. \A o \in Objectives :
        /\ loaded[e].at[o] # NoTime => draft[e].at[o] # NoTime
        /\ loaded[e].at[o] # NoTime => sla.at[o] # NoTime
  BY DEF RowInv, Decided, LoadedStops
<1>4. /\ Merged(e) \in SlaRows /\ Merged(e).due = sla.due
      /\ Merged(e).warned = Changed(loaded[e].warned, draft[e].warned, sla.warned)
      /\ Merged(e).breached = Changed(loaded[e].breached, draft[e].breached, sla.breached)
  BY <1>1, MergedRow
<1> QED
  BY <1>1, <1>2, <1>3, <1>4

\* What DeadlinesNeverMove says of one step.
Kept ==
  sla # NoRow =>
    /\ sla' # NoRow /\ sla'.due = sla.due
    /\ \A o \in Objectives : sla.at[o] # NoTime => sla'.at[o] # NoTime

\* Only a commit changes the row: one that made it finds none, by the unique
\* constraint, and any other merges its stop times into it.
LEMMA KeptStep == TypeOK /\ RowInv /\ [Next]_vars => Kept
<1> SUFFICES ASSUME TypeOK, RowInv, [Next]_vars PROVE Kept
  OBVIOUS
<1>1. ASSUME NEW e \in Sessions, Commit(e) PROVE Kept
  <2>1. CASE "sla" \in made[e]
    BY <1>1, <2>1 DEF Commit, Conflict, Kept
  <2>2. CASE "sla" \notin made[e]
    <3>1. sla' = Merged(e) /\ pc[e] = "commit"
      BY <1>1, <2>2 DEF Commit
    <3>2. Merged(e) # NoRow
      BY <2>2, <3>1, MergedKeepsStops, SlaConstants
    <3> QED
      BY <2>2, <3>1, <3>2, MergedKeepsStops DEF Kept
  <2> QED
    BY <2>1, <2>2
<1>2. CASE sla' = sla
  BY <1>2 DEF Kept
<1> QED
  BY <1>1, <1>2 DEF Next, Session, Tick, UpsertPolicy, Stamp, Publish, Drop, Start, Load,
                    Decide, Reject, Fail, world, vars

\* A session's claims about the row survive the steps of the others.
LEMMA OthersRow ==
  ASSUME TypeOK, RowInv, Kept, NEW d \in Sessions,
         pc'[d] = pc[d], made'[d] = made[d], loaded'[d] = loaded[d], draft'[d] = draft[d]
  PROVE  Decided(d)' /\ LoadedStops(d)'
<1>1. Decided(d)'
  BY DEF RowInv, Decided
<1>2. pc[d] \in {"decide", "commit"} /\ "sla" \notin made[d] => sla # NoRow
  BY DEF TypeOK, HoldsRows
<1>3. LoadedStops(d)'
  BY <1>2 DEF RowInv, LoadedStops, Kept
<1> QED
  BY <1>1, <1>3

\* RowInv holds when no session is running, and every step preserves it.
LEMMA RowStep == TypeOK /\ TypeOK' /\ RowInv /\ [Next]_vars => RowInv'
<1> SUFFICES ASSUME TypeOK, TypeOK', RowInv, [Next]_vars PROVE RowInv'
  OBVIOUS
<1> USE SlaConstants
<1>0. Kept
  BY KeptStep
<1>1. ASSUME NEW e \in Sessions, Start(e) PROVE RowInv'
  <2>1. Decided(e)' /\ LoadedStops(e)'
    <3>1. CASE sla = NoRow
      <4>1. loaded'[e] = Attached(Ensured) /\ pc'[e] = "load"
        BY <1>1, <3>1 DEF Start, TypeOK
      <4> QED
        BY <4>1, EnsuredType, AttachedType DEF Decided, LoadedStops
    <3>2. CASE sla # NoRow
      BY <1>1, <3>2 DEF Start, TypeOK, HoldsRows, Decided, LoadedStops
    <3> QED
      BY <3>1, <3>2
  <2>2. \A d \in Sessions \ {e} : Decided(d)' /\ LoadedStops(d)'
    BY <1>0, <1>1, OthersRow DEF Start, TypeOK
  <2> QED
    BY <2>1, <2>2 DEF RowInv
<1>2. ASSUME NEW e \in Sessions, Load(e) PROVE RowInv'
  <2>1. Decided(e)' /\ LoadedStops(e)'
    BY <1>2 DEF Load, TypeOK, RowInv, Decided, LoadedStops, world
  <2>2. \A d \in Sessions \ {e} : Decided(d)' /\ LoadedStops(d)'
    BY <1>0, <1>2, OthersRow DEF Load, TypeOK
  <2> QED
    BY <2>1, <2>2 DEF RowInv
<1>3. ASSUME NEW e \in Sessions, Decide(e) PROVE RowInv'
  <2> DEFINE row == Refreshed(loaded[e])
             done == IF e \in Evaluators THEN Evaluated(e, row) ELSE row
  <2>1. loaded[e] \in SlaRows /\ row \in SlaRows
    BY <1>3, RefreshedRow DEF Decide, TypeOK, HoldsRows
  <2>2. /\ \A o \in Objectives : loaded[e].at[o] # NoTime => row.at[o] # NoTime
        /\ row.warned = loaded[e].warned
        /\ \A o \in Objectives : row.at[o] = NoTime =>
             (o \in row.breached <=> o \in loaded[e].breached)
    BY <2>1, RefreshedRow
  <2>3. /\ draft'[e] = done /\ loaded'[e] = loaded[e] /\ made'[e] = made[e]
        /\ pc[e] = "decide" /\ pc'[e] = "commit" /\ sla' = sla
    BY <1>3 DEF Decide, TypeOK, world
  <2>4. e \in Evaluators => /\ done.at = row.at
                            /\ row.warned \subseteq done.warned
                            /\ row.breached \subseteq done.breached
    BY <2>1, EvaluatedRow
  <2>5. e \in Readers => done = row
    OBVIOUS
  <2>6. e \in Evaluators \/ e \in Readers
    BY DEF Sessions
  <2> HIDE DEF row, done
  <2>7. Decided(e)'
    BY <2>2, <2>3, <2>4, <2>5, <2>6 DEF Decided
  <2>8. LoadedStops(e)'
    BY <2>3 DEF RowInv, LoadedStops
  <2>9. \A d \in Sessions \ {e} : Decided(d)' /\ LoadedStops(d)'
    BY <1>0, <1>3, OthersRow DEF Decide, TypeOK
  <2> QED
    BY <2>7, <2>8, <2>9 DEF RowInv
<1>4. ASSUME NEW e \in Sessions, EndSession(e) PROVE RowInv'
  <2>1. Decided(e)' /\ LoadedStops(e)'
    BY <1>4, EndSessionType DEF Decided, LoadedStops
  <2>2. \A d \in Sessions \ {e} : Decided(d)' /\ LoadedStops(d)'
    BY <1>0, <1>4, EndSessionType, OthersRow
  <2> QED
    BY <2>1, <2>2 DEF RowInv
<1>5. CASE UNCHANGED <<pc, made, loaded, draft>>
  BY <1>0, <1>5, OthersRow DEF RowInv
<1> QED
  BY <1>1, <1>2, <1>3, <1>4, <1>5 DEF Next, Session, Tick, UpsertPolicy, Stamp, Publish, Drop,
                                      Commit, Reject, Fail, vars

\* RowInv is an invariant.
LEMMA RowInvariant == Spec => [](TypeOK /\ RowInv)
<1>1. Init => TypeOK /\ RowInv
  BY SlaConstants DEF Init, TypeOK, HoldsRows, RowInv, Decided, LoadedStops
<1>2. TypeOK /\ RowInv /\ [Next]_vars => (TypeOK /\ RowInv)'
  BY TypeStep, RowStep
<1> QED
  BY <1>1, <1>2, PTL DEF Spec

\* Whatever the policies and however materialisations, evaluations and page
\* views interleave, a deadline stays where it was and a recorded stop time
\* is never taken back.
THEOREM DeadlinesStay == Spec => DeadlinesNeverMove
<1>1. TypeOK /\ RowInv /\ [Next]_vars => [Kept]_sla
  BY KeptStep
<1>2. DeadlinesNeverMove <=> [][Kept]_sla
  BY DEF DeadlinesNeverMove, Kept
<1> QED
  BY <1>1, <1>2, RowInvariant, PTL DEF Spec
-----------------------------------------------------------------------------
\* The columns of a row as an UPDATE of a session that only added flags leaves
\* them: those of the row and those that are new.
LEMMA ChangedAdds ==
  ASSUME NEW old, NEW new, NEW current, NEW o, o \in old => o \in new
  PROVE  o \in Changed(old, new, current) <=> o \in current \/ o \in new \ old
  BY DEF Changed

\* A commit counts one notification for each flag it announces.
LEMMA Counted ==
  ASSUME TypeOK, NEW e \in Sessions, Commit(e), NEW o \in Objectives
  PROVE  /\ notified[o].warning \in Nat /\ notified[o].breach \in Nat
         /\ notified'[o].warning = notified[o].warning
              + IF o \in draft[e].warned \ loaded[e].warned THEN 1 ELSE 0
         /\ notified'[o].breach = notified[o].breach
              + IF o \in draft[e].breached \ loaded[e].breached /\ draft[e].at[o] = NoTime
                  THEN 1 ELSE 0
  BY DEF TypeOK, Commit, Announces

\* Every step keeps flags and notifications together.
LEMMA FlagsStep ==
  TypeOK /\ TypeOK' /\ RowInv /\ FlagsMatchNotifications /\ [Next]_vars
    => FlagsMatchNotifications'
<1> SUFFICES ASSUME TypeOK, TypeOK', RowInv, FlagsMatchNotifications, [Next]_vars
             PROVE  FlagsMatchNotifications'
  OBVIOUS
<1> USE SlaConstants
<1>1. ASSUME NEW e \in Sessions, Commit(e) PROVE FlagsMatchNotifications'
  <2>1. pc[e] = "commit" /\ ~Conflict(e)
    BY <1>1 DEF Commit
  <2>2. /\ loaded[e].warned \subseteq draft[e].warned
        /\ \A o \in Objectives : draft[e].at[o] = NoTime /\ o \in loaded[e].breached =>
             o \in draft[e].breached
    BY <2>1 DEF RowInv, Decided
  <2>3. CASE "sla" \in made[e]
    <3>1. sla = NoRow /\ sla' = draft[e] /\ draft[e] \in SlaRows
      BY <1>1, <2>1, <2>3 DEF Commit, Conflict, TypeOK, HoldsRows
    <3>2. loaded[e].warned = {} /\ loaded[e].breached = {}
      BY <2>1, <2>3 DEF RowInv, LoadedStops
    <3>3. ASSUME NEW o \in Objectives
          PROVE  /\ o \in sla'.warned <=> notified'[o].warning > 0
                 /\ sla'.at[o] = NoTime => (o \in sla'.breached <=> notified'[o].breach > 0)
      BY <1>1, <3>1, <3>2, Counted DEF FlagsMatchNotifications
    <3> QED
      BY <3>1, <3>3 DEF FlagsMatchNotifications
  <2>4. CASE "sla" \notin made[e]
    <3>1. sla' = Merged(e) /\ sla # NoRow /\ sla' # NoRow
      BY <1>1, <2>1, <2>4, MergedKeepsStops DEF Commit
    <3>2. ASSUME NEW o \in Objectives
          PROVE  /\ o \in sla'.warned <=> notified'[o].warning > 0
                 /\ sla'.at[o] = NoTime => (o \in sla'.breached <=> notified'[o].breach > 0)
      <4>1. o \in sla'.warned <=> o \in sla.warned \/ o \in draft[e].warned \ loaded[e].warned
        BY <2>1, <2>2, <2>4, <3>1, MergedKeepsStops, ChangedAdds
      <4>2. o \in sla'.warned <=> notified'[o].warning > 0
        BY <1>1, <3>1, <4>1, Counted DEF FlagsMatchNotifications
      <4>3. CASE sla'.at[o] = NoTime
        <5>1. sla.at[o] = NoTime /\ draft[e].at[o] = NoTime
          BY <2>1, <2>4, <3>1, <4>3, MergedKeepsStops
        <5>2. o \in sla'.breached
                <=> o \in sla.breached \/ o \in draft[e].breached \ loaded[e].breached
          BY <2>1, <2>2, <2>4, <3>1, <5>1, MergedKeepsStops, ChangedAdds
        <5>3. o \in sla'.breached <=> notified'[o].breach > 0
          BY <1>1, <3>1, <5>1, <5>2, Counted DEF FlagsMatchNotifications
        <5> QED
          BY <4>2, <5>3
      <4> QED
        BY <4>2, <4>3
    <3> QED
      BY <3>1, <3>2 DEF FlagsMatchNotifications
  <2> QED
    BY <2>3, <2>4
<1>2. CASE UNCHANGED <<sla, notified>>
  BY <1>2 DEF FlagsMatchNotifications
<1> QED
  BY <1>1, <1>2 DEF Next, Session, Tick, UpsertPolicy, Stamp, Publish, Drop, Start, Load,
                    Decide, Reject, Fail, world, vars

\* A flag stands for a notification that exists and a notification for a flag,
\* whoever evaluates and however often, with or without the advisory lock.
THEOREM FlagsFollowNotifications == Spec => []FlagsMatchNotifications
<1>1. Init => FlagsMatchNotifications
  BY DEF Init, FlagsMatchNotifications
<1>2. TypeOK /\ RowInv /\ (TypeOK /\ RowInv)' /\ FlagsMatchNotifications /\ [Next]_vars
        => FlagsMatchNotifications'
  BY FlagsStep
<1> QED
  BY <1>1, <1>2, RowInvariant, PTL DEF Spec
-----------------------------------------------------------------------------
\* The evaluators past their start are callers or hold the lock.
LEMMA AnnouncersBound ==
  ASSUME TypeOK, LockInv, NEW R \in SUBSET Evaluators, \A e \in R : pc[e] # "idle"
  PROVE  IsFiniteSet(R) /\ Cardinality(R) \in Nat /\ Cardinality(R) <= Announcers
         /\ Announcers \in Nat
<1>1. IsFiniteSet(Callers) /\ Cardinality(Callers) \in Nat
  BY SlaConstants, FS_CardinalityType
<1>2. CASE Schedulers = {}
  <2>1. R \subseteq Callers /\ Announcers = Cardinality(Callers)
    BY <1>1, <1>2 DEF Evaluators, Announcers
  <2> QED
    BY <1>1, <2>1, FS_Subset, FS_CardinalityType
<1>3. CASE Schedulers # {}
  <2> DEFINE all == Callers \cup {holder}
  <2>1. R \subseteq all
    BY DEF Evaluators, LockInv
  <2>2. IsFiniteSet(all) /\ Cardinality(all) <= Cardinality(Callers) + 1
        /\ Cardinality(all) \in Nat
    BY <1>1, FS_AddElement, FS_CardinalityType
  <2>3. Announcers = Cardinality(Callers) + 1
    BY <1>3 DEF Announcers
  <2> HIDE DEF all
  <2>4. IsFiniteSet(R) /\ Cardinality(R) <= Cardinality(all)
    BY <2>1, <2>2, FS_Subset
  <2>5. Cardinality(R) \in Nat
    BY <2>4, FS_CardinalityType
  <2> QED
    BY <1>1, <2>2, <2>3, <2>4, <2>5
<1> QED
  BY <1>2, <1>3

\* A step that announces takes its evaluator out of those that are ready; any
\* other makes none ready where there has been a notification.
Spends(n, n2, R, R2) ==
  \/ n2 = n /\ (n = 0 \/ R2 \subseteq R)
  \/ n2 = n + 1 /\ \E e \in R : R2 \subseteq R \ {e}

LEMMA WithinStays ==
  ASSUME NEW n \in Nat, NEW n2, NEW R, NEW R2, IsFiniteSet(R), Cardinality(R) \in Nat,
         Announcers \in Nat, Cardinality(R) <= Announcers,
         Within(n, R), Spends(n, n2, R, R2)
  PROVE  Within(n2, R2)
<1>1. CASE n2 = n /\ n = 0
  BY <1>1 DEF Within
<1>2. CASE n2 = n /\ R2 \subseteq R
  <2>1. Cardinality(R2) <= Cardinality(R) /\ Cardinality(R2) \in Nat
    BY <1>2, FS_Subset, FS_CardinalityType
  <2> QED
    BY <1>2, <2>1 DEF Within
<1>3. ASSUME n2 = n + 1, NEW e \in R, R2 \subseteq R \ {e} PROVE Within(n2, R2)
  <2> DEFINE S == R \ {e}
  <2>1. IsFiniteSet(S) /\ Cardinality(S) = Cardinality(R) - 1
    BY <1>3, FS_RemoveElement
  <2> HIDE DEF S
  <2>2. Cardinality(R2) <= Cardinality(S) /\ Cardinality(R2) \in Nat
    BY <1>3, <2>1, FS_Subset, FS_CardinalityType DEF S
  <2> QED
    BY <1>3, <2>1, <2>2 DEF Within
<1> QED
  BY <1>1, <1>2, <1>3 DEF Spends

\* What a step does to the notifications of objective o and to those ready.
StepSpends(o) ==
  /\ Spends(notified[o].warning, notified'[o].warning, ReadyToWarn(o), ReadyToWarn(o)')
  /\ Spends(notified[o].breach, notified'[o].breach, ReadyToBreach(o), ReadyToBreach(o)')

\* A session that loads the row, or makes it, joins those ready to announce
\* only what has not been announced.
LEMMA JoinsUnannounced ==
  ASSUME TypeOK, NEW e \in Sessions, NEW o \in Objectives, UNCHANGED notified,
         \A d \in Sessions \ {e} : pc'[d] = pc[d] /\ made'[d] = made[d] /\ loaded'[d] = loaded[d],
         HasCopy(e)' => /\ o \notin loaded'[e].warned => notified[o].warning = 0
                        /\ loaded'[e].at[o] = NoTime /\ o \notin loaded'[e].breached =>
                             notified[o].breach = 0
  PROVE  StepSpends(o)
<1>1. notified[o].warning = 0 \/ ReadyToWarn(o)' \subseteq ReadyToWarn(o)
  BY DEF ReadyToWarn, HasCopy, Sessions
<1>2. notified[o].breach = 0 \/ ReadyToBreach(o)' \subseteq ReadyToBreach(o)
  BY DEF ReadyToBreach, HasCopy, Sessions
<1> QED
  BY <1>1, <1>2 DEF StepSpends, Spends

\* A commit announces what its own copy was without: a reader nothing, an
\* evaluator what made it one of those ready.
LEMMA CommitSpends ==
  ASSUME TypeOK, RowInv, NEW e \in Sessions, Commit(e), NEW o \in Objectives
  PROVE  StepSpends(o)
<1>1. pc[e] = "commit" /\ EndSession(e)
  BY DEF Commit
<1>2. /\ pc'[e] = "idle"
      /\ \A d \in Sessions \ {e} : pc'[d] = pc[d] /\ made'[d] = made[d] /\ loaded'[d] = loaded[d]
  BY <1>1, EndSessionType
<1>3. ReadyToWarn(o)' \subseteq ReadyToWarn(o) \ {e}
  BY <1>2 DEF ReadyToWarn, HasCopy, Sessions
<1>4. ReadyToBreach(o)' \subseteq ReadyToBreach(o) \ {e}
  BY <1>2 DEF ReadyToBreach, HasCopy, Sessions
<1>5. e \in Readers \/ e \in Evaluators
  BY DEF Sessions
<1>6. /\ \A p \in Objectives : loaded[e].at[p] # NoTime => draft[e].at[p] # NoTime
      /\ e \in Readers =>
           /\ draft[e].warned = loaded[e].warned
           /\ \A p \in Objectives : draft[e].at[p] = NoTime /\ p \in draft[e].breached =>
                p \in loaded[e].breached
  BY <1>1 DEF RowInv, Decided
<1>7. HasCopy(e)
  BY <1>1 DEF HasCopy
<1>8. o \in draft[e].warned \ loaded[e].warned => e \in ReadyToWarn(o)
  BY <1>5, <1>6, <1>7 DEF ReadyToWarn
<1>9. o \in draft[e].breached \ loaded[e].breached /\ draft[e].at[o] = NoTime
         => e \in ReadyToBreach(o)
  BY <1>5, <1>6, <1>7 DEF ReadyToBreach
<1>10. Spends(notified[o].warning, notified'[o].warning, ReadyToWarn(o), ReadyToWarn(o)')
  BY <1>3, <1>8, Counted DEF Spends
<1>11. Spends(notified[o].breach, notified'[o].breach, ReadyToBreach(o), ReadyToBreach(o)')
  BY <1>4, <1>9, Counted DEF Spends
<1> QED
  BY <1>10, <1>11 DEF StepSpends

\* The lock is taken when it is free and given back by its holder.
LEMMA LockStep == TypeOK /\ LockInv /\ [Next]_vars => LockInv'
<1> SUFFICES ASSUME TypeOK, LockInv, [Next]_vars PROVE LockInv'
  OBVIOUS
<1> USE SlaConstants
<1>1. \A e \in Schedulers : e \in Sessions
  BY DEF Sessions, Evaluators
<1>2. ASSUME NEW e \in Sessions, Start(e) PROVE LockInv'
  BY <1>1, <1>2 DEF Start, LockInv, TypeOK
<1>3. ASSUME NEW e \in Sessions, Load(e) PROVE LockInv'
  BY <1>1, <1>3 DEF Load, LockInv, TypeOK
<1>4. ASSUME NEW e \in Sessions, Decide(e) PROVE LockInv'
  BY <1>1, <1>4 DEF Decide, LockInv, TypeOK
<1>5. ASSUME NEW e \in Sessions, EndSession(e) PROVE LockInv'
  BY <1>1, <1>5 DEF EndSession, LockInv, TypeOK
<1>6. CASE UNCHANGED <<holder, pc>>
  BY <1>6 DEF LockInv
<1> QED
  BY <1>2, <1>3, <1>4, <1>5, <1>6 DEF Next, Session, Tick, UpsertPolicy, Stamp, Publish, Drop,
                                      Commit, Reject, Fail, vars

\* Every step spends what its announcements cost.
LEMMA NextSpends ==
  ASSUME TypeOK, RowInv, FlagsMatchNotifications, [Next]_vars, NEW o \in Objectives
  PROVE  StepSpends(o)
<1> USE SlaConstants
<1>1. ASSUME NEW e \in Sessions, Start(e) PROVE StepSpends(o)
  <2>1. /\ UNCHANGED notified
        /\ \A d \in Sessions \ {e} : pc'[d] = pc[d] /\ made'[d] = made[d] /\ loaded'[d] = loaded[d]
    BY <1>1 DEF Start, TypeOK, world
  <2>2. HasCopy(e)' => notified[o].warning = 0 /\ notified[o].breach = 0
    <3>1. CASE sla = NoRow
      BY <3>1 DEF FlagsMatchNotifications
    <3>2. CASE sla # NoRow
      BY <1>1, <3>2 DEF Start, TypeOK, HoldsRows, HasCopy
    <3> QED
      BY <3>1, <3>2
  <2> QED
    BY <2>1, <2>2, JoinsUnannounced
<1>2. ASSUME NEW e \in Sessions, Load(e) PROVE StepSpends(o)
  <2>1. /\ UNCHANGED notified
        /\ \A d \in Sessions \ {e} : pc'[d] = pc[d] /\ made'[d] = made[d] /\ loaded'[d] = loaded[d]
    BY <1>2 DEF Load, TypeOK, world
  <2>2. CASE "sla" \in made[e]
    <3>1. loaded' = loaded /\ made' = made /\ HasCopy(e)
      BY <1>2, <2>2 DEF Load, TypeOK, HasCopy
    <3>2. ReadyToWarn(o)' \subseteq ReadyToWarn(o) /\ ReadyToBreach(o)' \subseteq ReadyToBreach(o)
      BY <2>1, <3>1 DEF ReadyToWarn, ReadyToBreach, HasCopy, Sessions
    <3> QED
      BY <2>1, <3>2 DEF StepSpends, Spends
  <2>3. CASE "sla" \notin made[e]
    <3>1. loaded'[e] = sla /\ sla # NoRow
      BY <1>2, <2>3 DEF Load, TypeOK, HoldsRows
    <3>2. /\ notified[o].warning \in Nat /\ notified[o].breach \in Nat
          /\ o \notin sla.warned => notified[o].warning = 0
          /\ sla.at[o] = NoTime /\ o \notin sla.breached => notified[o].breach = 0
      BY <3>1 DEF FlagsMatchNotifications, TypeOK
    <3> QED
      BY <2>1, <3>1, <3>2, JoinsUnannounced
  <2> QED
    BY <2>2, <2>3
<1>3. ASSUME NEW e \in Sessions, Decide(e) PROVE StepSpends(o)
  <2>1. /\ UNCHANGED <<notified, made, loaded>>
        /\ pc[e] = "decide" /\ pc' = [pc EXCEPT ![e] = "commit"]
    BY <1>3 DEF Decide, world
  <2>2. ReadyToWarn(o)' \subseteq ReadyToWarn(o) /\ ReadyToBreach(o)' \subseteq ReadyToBreach(o)
    BY <2>1 DEF ReadyToWarn, ReadyToBreach, HasCopy, Sessions, TypeOK
  <2> QED
    BY <2>1, <2>2 DEF StepSpends, Spends
<1>4. ASSUME NEW e \in Sessions, EndSession(e), UNCHANGED notified PROVE StepSpends(o)
  <2>1. /\ pc'[e] = "idle"
        /\ \A d \in Sessions \ {e} : pc'[d] = pc[d] /\ made'[d] = made[d] /\ loaded'[d] = loaded[d]
    BY <1>4, EndSessionType
  <2> QED
    BY <1>4, <2>1, JoinsUnannounced DEF HasCopy
<1>5. CASE UNCHANGED <<notified, pc, made, loaded>>
  <2>1. ReadyToWarn(o)' = ReadyToWarn(o) /\ ReadyToBreach(o)' = ReadyToBreach(o)
    BY <1>5 DEF ReadyToWarn, ReadyToBreach, HasCopy
  <2> QED
    BY <1>5, <2>1 DEF StepSpends, Spends
<1> QED
  BY <1>1, <1>2, <1>3, <1>4, <1>5, CommitSpends
  DEF Next, Session, Tick, UpsertPolicy, Stamp, Publish, Drop, Reject, Fail, world, vars

\* Every step preserves BoundInv.
LEMMA BoundStep ==
  TypeOK /\ RowInv /\ FlagsMatchNotifications /\ BoundInv /\ [Next]_vars => BoundInv'
<1> SUFFICES ASSUME TypeOK, RowInv, FlagsMatchNotifications, BoundInv, [Next]_vars
             PROVE  BoundInv'
  OBVIOUS
<1>1. LockInv'
  BY LockStep DEF BoundInv
<1>2. ASSUME NEW o \in Objectives
      PROVE  /\ Within(notified'[o].warning, ReadyToWarn(o)')
             /\ Within(notified'[o].breach, ReadyToBreach(o)')
  <2>1. StepSpends(o)
    BY NextSpends
  <2>2. /\ ReadyToWarn(o) \in SUBSET Evaluators /\ \A e \in ReadyToWarn(o) : pc[e] # "idle"
        /\ ReadyToBreach(o) \in SUBSET Evaluators /\ \A e \in ReadyToBreach(o) : pc[e] # "idle"
    BY DEF ReadyToWarn, ReadyToBreach, HasCopy
  <2>3. notified[o].warning \in Nat /\ notified[o].breach \in Nat
    BY DEF TypeOK
  <2>4. /\ IsFiniteSet(ReadyToWarn(o)) /\ Cardinality(ReadyToWarn(o)) \in Nat
        /\ Cardinality(ReadyToWarn(o)) <= Announcers /\ Announcers \in Nat
    BY <2>2, AnnouncersBound DEF BoundInv
  <2>5. /\ IsFiniteSet(ReadyToBreach(o)) /\ Cardinality(ReadyToBreach(o)) \in Nat
        /\ Cardinality(ReadyToBreach(o)) <= Announcers
    BY <2>2, AnnouncersBound DEF BoundInv
  <2>6. Within(notified'[o].warning, ReadyToWarn(o)')
    BY <2>1, <2>3, <2>4, WithinStays DEF BoundInv, StepSpends
  <2>7. Within(notified'[o].breach, ReadyToBreach(o)')
    BY <2>1, <2>3, <2>4, <2>5, WithinStays DEF BoundInv, StepSpends
  <2> QED
    BY <2>6, <2>7
<1> QED
  BY <1>1, <1>2 DEF BoundInv

\* BoundInv leaves room for no more notifications than there are announcers.
LEMMA BoundEnough == TypeOK /\ BoundInv => NotificationsBounded
<1> SUFFICES ASSUME TypeOK, BoundInv, NEW o \in Objectives
             PROVE  notified[o].warning <= Announcers /\ notified[o].breach <= Announcers
  BY DEF NotificationsBounded
<1>1. /\ ReadyToWarn(o) \in SUBSET Evaluators /\ \A e \in ReadyToWarn(o) : pc[e] # "idle"
      /\ ReadyToBreach(o) \in SUBSET Evaluators /\ \A e \in ReadyToBreach(o) : pc[e] # "idle"
  BY DEF ReadyToWarn, ReadyToBreach, HasCopy
<1>2. Cardinality(ReadyToWarn(o)) \in Nat /\ Announcers \in Nat
  BY <1>1, AnnouncersBound DEF BoundInv
<1>3. Cardinality(ReadyToBreach(o)) \in Nat
  BY <1>1, AnnouncersBound DEF BoundInv
<1>4. notified[o].warning \in Nat /\ notified[o].breach \in Nat
  BY DEF TypeOK
<1> QED
  BY <1>2, <1>3, <1>4 DEF BoundInv, Within

\* Whatever the number of scheduler processes, of callers and of readers and
\* whatever fails, an objective gets no more warnings and no more breach
\* notifications than there are callers, and one for all the schedulers: one
\* where nobody calls POST /sla/evaluate.
THEOREM NotificationsStayBounded == Spec => []NotificationsBounded
<1>1. Init => BoundInv
  BY DEF Init, BoundInv, LockInv, Within, Sessions, Evaluators
<1>2. TypeOK /\ RowInv /\ FlagsMatchNotifications /\ BoundInv /\ [Next]_vars => BoundInv'
  BY BoundStep
<1>3. TypeOK /\ BoundInv => NotificationsBounded
  BY BoundEnough
<1> QED
  BY <1>1, <1>2, <1>3, RowInvariant, FlagsFollowNotifications, PTL DEF Spec
-----------------------------------------------------------------------------
\* What a refresh does: an objective it finds the event of takes the time and
\* the verdict of that event, any other keeps its own.
LEMMA RefreshedForm ==
  ASSUME NEW row \in SlaRows, NEW o \in Objectives
  PROVE  /\ Refreshed(row).due = row.due
         /\ IF row.at[o] = NoTime /\ events[o] # {}
              THEN /\ Refreshed(row).at[o] = Earliest(events[o])
                   /\ o \in Refreshed(row).breached <=> Earliest(events[o]) > row.due[o]
              ELSE /\ Refreshed(row).at[o] = row.at[o]
                   /\ o \in Refreshed(row).breached <=> o \in row.breached
<1> DEFINE found == {p \in Objectives : row.at[p] = NoTime /\ events[p] # {}}
           late  == {p \in found : Earliest(events[p]) > row.due[p]}
           at    == [p \in Objectives |-> IF p \in found THEN Earliest(events[p])
                                                          ELSE row.at[p]]
<1>1. Refreshed(row) = [row EXCEPT !.at = at, !.breached = (@ \ found) \cup late]
  BY DEF Refreshed
<1>2. Refreshed(row) = [due |-> row.due, at |-> at, warned |-> row.warned,
                        breached |-> (row.breached \ found) \cup late]
  BY <1>1 DEF SlaRows
<1>3. Refreshed(row).at[o] = at[o]
  BY <1>2
<1> QED
  BY <1>2, <1>3

\* The stop times of a row have been the first of their objectives.
StopsFirst(row) == \A o \in Objectives : row.at[o] # NoTime => row.at[o] \in firsts[o]

\* So have those of every copy of the row, and the first event there is now.
StopsInv ==
  /\ \A o \in Objectives : events[o] # {} => Earliest(events[o]) \in firsts[o]
  /\ StopsWereEarliest
  /\ \A e \in Sessions :
       /\ pc[e] \in {"decide", "commit"} => StopsFirst(loaded[e])
       /\ pc[e] = "commit" => StopsFirst(draft[e])

\* A refresh stops objectives at their first events.
LEMMA RefreshedFirst ==
  ASSUME StopsInv, NEW row \in SlaRows, StopsFirst(row)
  PROVE  StopsFirst(Refreshed(row))
  BY RefreshedForm DEF StopsFirst, StopsInv

\* The event that becomes first is remembered.
LEMMA PublishedFirst ==
  ASSUME TypeOK, StopsInv, NEW m \in sending, Publish(m)
  PROVE  /\ \A o \in Objectives : firsts[o] \subseteq firsts'[o]
         /\ \A o \in Objectives : events'[o] # {} => Earliest(events'[o]) \in firsts'[o]
<1>1. m[1] \in Objectives /\ m[2] \in Nat
  BY DEF TypeOK
<1> DEFINE T == events'[m[1]]
<1>2. /\ events' = [events EXCEPT ![m[1]] = @ \cup {m[2]}]
      /\ firsts' = [firsts EXCEPT ![m[1]] = @ \cup {t \in T : \A u \in T : t <= u}]
  BY DEF Publish
<1>3. T \in SUBSET Nat /\ T # {}
  BY <1>1, <1>2 DEF TypeOK
<1> HIDE DEF T
<1>4. Earliest(T) \in {t \in T : \A u \in T : t <= u}
  BY <1>3, EarliestIn
<1>5. firsts'[m[1]] = firsts[m[1]] \cup {t \in T : \A u \in T : t <= u}
  BY <1>1, <1>2 DEF TypeOK
<1>6. \A o \in Objectives : o # m[1] => events'[o] = events[o] /\ firsts'[o] = firsts[o]
  BY <1>1, <1>2 DEF TypeOK
<1> QED
  BY <1>4, <1>5, <1>6 DEF StopsInv, T

\* Every step keeps the stop times of the row and of its copies among the
\* times that were first.
LEMMA StopsStep ==
  TypeOK /\ TypeOK' /\ RowInv /\ StopsInv /\ [Next]_vars => StopsInv'
<1> SUFFICES ASSUME TypeOK, TypeOK', RowInv, StopsInv, [Next]_vars
             PROVE  StopsInv'
  OBVIOUS
<1> USE SlaConstants
<1>1. ASSUME NEW e \in Sessions, Start(e) PROVE StopsInv'
  <2>1. /\ sla' = sla /\ UNCHANGED <<events, firsts>> /\ draft' = draft
        /\ pc' = [pc EXCEPT ![e] = "load"]
        /\ \A d \in Sessions \ {e} : loaded'[d] = loaded[d]
    BY <1>1 DEF Start, TypeOK, world
  <2> QED
    BY <2>1 DEF StopsInv, StopsFirst, StopsWereEarliest, TypeOK
<1>2. ASSUME NEW e \in Sessions, Load(e) PROVE StopsInv'
  <2>1. /\ sla' = sla /\ UNCHANGED <<events, firsts>> /\ draft' = draft
        /\ pc[e] = "load" /\ pc' = [pc EXCEPT ![e] = "decide"]
        /\ loaded' = [loaded EXCEPT ![e] = IF "sla" \in made[e] THEN @ ELSE sla]
    BY <1>2 DEF Load, world
  <2>2. StopsFirst(loaded'[e])
    <3>1. CASE "sla" \in made[e]
      BY <2>1, <3>1 DEF RowInv, LoadedStops, StopsFirst, TypeOK
    <3>2. CASE "sla" \notin made[e]
      <4>1. loaded'[e] = sla /\ sla # NoRow
        BY <2>1, <3>2 DEF TypeOK, HoldsRows
      <4> QED
        BY <4>1 DEF StopsInv, StopsWereEarliest, StopsFirst
    <3> QED
      BY <3>1, <3>2
  <2> QED
    BY <2>1, <2>2 DEF StopsInv, StopsFirst, StopsWereEarliest, TypeOK
<1>3. ASSUME NEW e \in Sessions, Decide(e) PROVE StopsInv'
  <2> DEFINE row == Refreshed(loaded[e])
             done == IF e \in Evaluators THEN Evaluated(e, row) ELSE row
  <2>1. /\ sla' = sla /\ UNCHANGED <<events, firsts>> /\ loaded' = loaded
        /\ pc[e] = "decide" /\ pc' = [pc EXCEPT ![e] = "commit"]
        /\ draft' = [draft EXCEPT ![e] = done]
    BY <1>3 DEF Decide, world
  <2>2. loaded[e] \in SlaRows /\ StopsFirst(loaded[e])
    BY <2>1 DEF TypeOK, HoldsRows, StopsInv
  <2>3. row \in SlaRows /\ StopsFirst(row)
    BY <2>2, RefreshedRow, RefreshedFirst
  <2> HIDE DEF row
  <2>4. StopsFirst(done)
    BY <2>3, EvaluatedRow DEF StopsFirst
  <2> HIDE DEF done
  <2> QED
    BY <2>1, <2>4 DEF StopsInv, StopsFirst, StopsWereEarliest, TypeOK
<1>4. ASSUME NEW e \in Sessions, EndSession(e), UNCHANGED <<events, firsts>>, Commit(e) \/ UNCHANGED sla
      PROVE  StopsInv'
  <2>1. StopsWereEarliest'
    <3>1. CASE UNCHANGED sla
      BY <1>4, <3>1 DEF StopsInv, StopsWereEarliest
    <3>2. CASE Commit(e)
      <4>1. pc[e] = "commit" /\ StopsFirst(draft[e])
        BY <3>2 DEF Commit, StopsInv
      <4>2. CASE "sla" \in made[e]
        BY <1>4, <3>2, <4>1, <4>2 DEF Commit, StopsWereEarliest, StopsFirst
      <4>3. CASE "sla" \notin made[e]
        <5>1. /\ sla' = Merged(e) /\ sla \in SlaRows /\ sla # NoRow
              /\ draft[e] \in SlaRows /\ loaded[e] \in SlaRows
          BY <3>2, <4>1, <4>3 DEF Commit, TypeOK, HoldsRows
        <5>2. \A o \in Objectives : sla'.at[o] = draft[e].at[o] \/ sla'.at[o] = sla.at[o]
          BY <5>1, MergedRow
        <5> QED
          BY <1>4, <4>1, <5>1, <5>2 DEF StopsInv, StopsWereEarliest, StopsFirst
      <4> QED
        BY <4>2, <4>3
    <3> QED
      BY <1>4, <3>1, <3>2
  <2>2. /\ pc'[e] = "idle"
        /\ \A d \in Sessions \ {e} : /\ pc'[d] = pc[d] /\ loaded'[d] = loaded[d]
                                     /\ draft'[d] = draft[d]
    BY <1>4, EndSessionType
  <2> QED
    BY <1>4, <2>1, <2>2 DEF StopsInv, StopsFirst
<1>5. ASSUME NEW m \in sending, Publish(m) PROVE StopsInv'
  <2>1. /\ UNCHANGED <<sla, pc, loaded, draft>>
        /\ \A o \in Objectives : firsts[o] \subseteq firsts'[o]
        /\ \A o \in Objectives : events'[o] # {} => Earliest(events'[o]) \in firsts'[o]
    BY <1>5, PublishedFirst DEF Publish
  <2> QED
    BY <2>1 DEF StopsInv, StopsFirst, StopsWereEarliest
<1>6. CASE UNCHANGED <<sla, events, firsts, pc, loaded, draft>>
  BY <1>6 DEF StopsInv, StopsWereEarliest, StopsFirst
<1> QED
  BY <1>1, <1>2, <1>3, <1>4, <1>5, <1>6
  DEF Next, Session, Tick, UpsertPolicy, Stamp, Drop, Commit, Reject, Fail, world, vars

\* However many requests commit events out of the order of their stamps and
\* whoever evaluates, a stop time is a time that was the objective's earliest
\* when it was read: no session writes a stop time of its own making, and none
\* that an older copy had.
THEOREM StopsWereFirst == Spec => []StopsWereEarliest
<1>1. Init => StopsInv
  BY DEF Init, StopsInv, StopsWereEarliest
<1>2. TypeOK /\ RowInv /\ (TypeOK /\ RowInv)' /\ StopsInv /\ [Next]_vars => StopsInv'
  BY StopsStep
<1>3. StopsInv => StopsWereEarliest
  BY DEF StopsInv
<1> QED
  BY <1>1, <1>2, <1>3, RowInvariant, PTL DEF Spec
=============================================================================
