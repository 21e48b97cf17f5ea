-------------------------- MODULE AiAssist_proofs --------------------------
(***************************************************************************)
(* Proofs about AiAssist, for any number of threads and processes, any     *)
(* limits and any timing.                                                  *)
(***************************************************************************)
EXTENDS AiAssist, FiniteSetTheorems, TLAPS

\* Aging a sequence never makes it longer, and keeps it a sequence of ages.
LEMMA AgedShrinks ==
  ASSUME NEW ages \in Seq(Nat), NEW max \in Int
  PROVE  Aged(ages, max) \in Seq(Nat) /\ Len(Aged(ages, max)) <= Len(ages)
<1> DEFINE Gone == {i \in DOMAIN ages : ages[i] >= max}
           gone == Cardinality(Gone)
<1>1. gone \in Nat /\ gone <= Len(ages)
  <2>1. DOMAIN ages = 1..Len(ages) /\ Len(ages) \in Nat
    OBVIOUS
  <2>2. \A k \in Nat : IsFiniteSet(1..k) /\ Cardinality(1..k) = k
    BY FS_Interval
  <2>3. Gone \subseteq 1..Len(ages)
    BY <2>1
  <2> QED BY <2>1, <2>2, <2>3, FS_Subset, FS_CardinalityType
<1> DEFINE n == Len(ages) - gone
<1>2. n \in Nat /\ n <= Len(ages)
  BY <1>1
<1>3. \A i \in 1..n : ages[i + gone] + 1 \in Nat
  <2> TAKE i \in 1..n
  <2>1. i + gone \in 1..Len(ages)
    BY <1>1
  <2> QED BY <2>1
<1>4. Aged(ages, max) = [i \in 1..n |-> ages[i + gone] + 1]
  BY DEF Aged
<1> HIDE DEF gone, n
<1>5. [i \in 1..n |-> ages[i + gone] + 1] \in Seq(Nat)
  BY <1>2, <1>3
<1>6. Len([i \in 1..n |-> ages[i + gone] + 1]) = n
  BY <1>2
<1> QED BY <1>2, <1>4, <1>5, <1>6

USE BreakerConstants, AssistConstants
-----------------------------------------------------------------------------
\* Each operation of the breaker keeps its type.
LEMMA BreakerTypes ==
  ASSUME BreakerTypeOK, NEW p \in Processes,
         \/ AssertClosed(p) \/ Incr \/ Expire \/ SetOpen \/ DeleteFailures
         \/ RecordLocally(p) \/ ResetCircuit(p) \/ ResetDistributedCircuit
         \/ ToggleRedis \/ Lapse \/ UNCHANGED breaker
  PROVE  BreakerTypeOK'
<1> USE DEF BreakerTypeOK, LocalStates, LocalReset
<1>1. CASE AssertClosed(p) BY <1>1 DEF AssertClosed
<1>2. CASE Incr BY <1>2 DEF Incr, Counted
<1>3. CASE Expire BY <1>3 DEF Expire
<1>4. CASE SetOpen BY <1>4 DEF SetOpen
<1>5. CASE DeleteFailures BY <1>5 DEF DeleteFailures
<1>6. CASE RecordLocally(p)
  <2> DEFINE n == Counted(local[p].failures)
  <2>1. n \in 0..Threshold
    BY DEF Counted
  <2> HIDE DEF n
  <2>2. local' = [local EXCEPT ![p] =
          IF n >= Threshold
          THEN [failures |-> n, opened |-> TRUE, ttl |-> Cooldown]
          ELSE [local[p] EXCEPT !.failures = n]]
    BY <1>6 DEF RecordLocally, n
  <2>3. UNCHANGED <<redisUp, openTtl, failures, failuresTtl>>
    BY <1>6 DEF RecordLocally
  <2> QED BY <2>1, <2>2, <2>3
<1>7. CASE ResetCircuit(p) BY <1>7 DEF ResetCircuit
<1>8. CASE ResetDistributedCircuit BY <1>8 DEF ResetDistributedCircuit
<1>9. CASE ToggleRedis BY <1>9 DEF ToggleRedis
<1>10. CASE Lapse
  <2>1. \A q \in Processes :
          /\ local'[q] \in LocalStates
          /\ local'[q].ttl > 0 => local'[q].opened
    BY <1>10 DEF Lapse, OneLess
  <2>2. local' \in [Processes -> LocalStates]
    BY <1>10, <2>1 DEF Lapse
  <2>3. \A q \in Processes : local'[q].ttl > 0 => local'[q].opened
    BY <2>1
  <2>4. openTtl' \in 0..Cooldown /\ failuresTtl' \in 0..Cooldown /\ redisUp' \in BOOLEAN
    <3>1. ASSUME NEW n \in 0..Cooldown PROVE OneLess(n) \in 0..Cooldown
      BY DEF OneLess
    <3>2. /\ openTtl' = OneLess(openTtl) /\ failuresTtl' = OneLess(failuresTtl)
          /\ redisUp' = redisUp
      BY <1>10 DEF Lapse
    <3>3. openTtl \in 0..Cooldown /\ failuresTtl \in 0..Cooldown /\ redisUp \in BOOLEAN
      OBVIOUS
    <3> QED
      BY <3>1, <3>2, <3>3
  <2>5. failures' \in 0..Threshold /\ (failures' = 0 => failuresTtl' = 0)
    BY <1>10 DEF Lapse, OneLess
  <2> QED BY <2>2, <2>3, <2>4, <2>5
<1>11. CASE UNCHANGED breaker BY <1>11 DEF breaker
<1> QED BY <1>1, <1>2, <1>3, <1>4, <1>5, <1>6, <1>7, <1>8, <1>9, <1>10, <1>11
-----------------------------------------------------------------------------
\* The part of TypeOK about threads, which Goto keeps.
ThreadsOK ==
  /\ pc \in [Threads -> Labels]
  /\ \A t \in Others : pc[t] \in {"idle", "ask", "work", "refused"}
  /\ elapsed \in [Threads -> Nat]

LEMMA GotoTypes ==
  ASSUME ThreadsOK, NEW t \in Threads, NEW label \in Labels, Goto(t, label),
         t \in Others => label \in {"idle", "ask", "work", "refused"}
  PROVE  ThreadsOK'
BY DEF ThreadsOK, Goto

\* A thread of Others never leaves the labels of a core request, so that a
\* step from any other label is a step of an assistant.
LEMMA InAssist ==
  ASSUME TypeOK, NEW t \in Threads,
         pc[t] \notin {"idle", "ask", "work", "refused"}
  PROVE  t \in Assistants
BY DEF TypeOK, Threads

\* What a step of a thread does to its label; every step keeps the history
\* and the rows typed.
LEMMA ServeTypes ==
  ASSUME TypeOK, NEW t \in Threads, Serve(t)
  PROVE  TypeOK'
<1>1. ThreadsOK
  BY DEF TypeOK, ThreadsOK
<1>2. ProcessOf[t] \in Processes
  BY DEF Threads
<1>3. SUFFICES /\ ThreadsOK' /\ BreakerTypeOK'
               /\ clock' = clock
               /\ rows' \in Seq(Nat) /\ failed' \in Seq(Nat)
               /\ streak' \in 0..Threshold
  BY DEF TypeOK, ThreadsOK
<1>4. BreakerTypeOK'
  <2>1. \/ AssertClosed(ProcessOf[t]) \/ Incr \/ Expire \/ SetOpen
        \/ DeleteFailures \/ RecordLocally(ProcessOf[t])
        \/ ResetCircuit(ProcessOf[t]) \/ ResetDistributedCircuit
        \/ UNCHANGED breaker
    BY DEF Serve, Accept, Connect, Refuse, Work, Limited, Count, Reject,
           Call, Fail, Answer, CountFailure, ExpireFailures, OpenCircuit,
           ClearFailures, FallBack, CountLocally, Reset, Forget, Record
  <2>2. BreakerTypeOK
    BY DEF TypeOK
  <2> QED BY <1>2, <2>1, <2>2, BreakerTypes
<1>5. /\ clock' = clock
      /\ rows' \in Seq(Nat) /\ failed' \in Seq(Nat)
      /\ streak' \in 0..Threshold
  <2> DEFINE Rows == rows' \in {rows, Append(rows, 0)}
             Failed == failed' \in {failed, Append(failed, 0), <<>>}
             Streak == streak' \in {streak, Counted(streak), 0}
  <2>1. clock' = clock /\ Rows /\ Failed /\ Streak
    BY DEF history,
         Serve, Accept, Connect, Refuse, Work, Limited, Count, Reject,
         Call, Fail, Answer, CountFailure, ExpireFailures, OpenCircuit,
         ClearFailures, FallBack, CountLocally, Reset, Forget, Record
  <2>2. rows' \in Seq(Nat) /\ failed' \in Seq(Nat)
    <3>1. rows \in Seq(Nat) /\ failed \in Seq(Nat)
      BY DEF TypeOK
    <3>2. <<>> \in Seq(Nat) /\ 0 \in Nat
      OBVIOUS
    <3>3. Append(rows, 0) \in Seq(Nat) /\ Append(failed, 0) \in Seq(Nat)
      BY <3>1, <3>2
    <3> QED BY <2>1, <3>1, <3>2, <3>3
  <2>3. streak' \in 0..Threshold
    BY <2>1 DEF TypeOK, Counted
  <2> QED BY <2>1, <2>2, <2>3
<1>6. ThreadsOK'
  <2>1. \E label \in {"idle", "ask", "work", "refused"} : Goto(t, label)
        => ThreadsOK'
    BY <1>1, GotoTypes DEF Labels
  <2>2. t \in Assistants /\ (\E label \in Labels : Goto(t, label))
        => ThreadsOK'
    BY <1>1, GotoTypes
  <2>3. CASE Accept(t) \/ Refuse(t) \/ Work(t)
    BY <1>1, <2>3, GotoTypes DEF Accept, Refuse, Work, Labels
  <2>4. CASE Connect(t)
    BY <1>1, <2>4, GotoTypes DEF Connect, Labels, Holding, Threads
  <2>5. CASE ~(Accept(t) \/ Refuse(t) \/ Work(t) \/ Connect(t))
    <3>1. pc[t] \notin {"idle", "ask", "work", "refused"}
      BY <2>5 DEF Serve, Limited, Count, Reject, Call, Fail, Answer,
           CountFailure, ExpireFailures, OpenCircuit, ClearFailures, FallBack,
           CountLocally, Reset, Forget, Record, Recording
    <3>2. t \in Assistants
      BY <3>1, InAssist
    <3>3. \E label \in Labels : Goto(t, label)
      BY <2>5 DEF Serve, Limited, Count, Reject, Call, Fail, Answer,
           CountFailure, ExpireFailures, OpenCircuit, ClearFailures, FallBack,
           CountLocally, Reset, Forget, Record, Labels, Holding, Recording
    <3> QED BY <2>2, <3>2, <3>3
  <2> QED BY <2>3, <2>4, <2>5
<1> QED BY <1>3, <1>4, <1>5, <1>6

LEMMA TypeStep ==
  ASSUME TypeOK, [Next]_vars
  PROVE  TypeOK'
<1>0. PICK p \in Processes : TRUE
  BY DEF Threads
<1>1. ASSUME NEW t \in Threads, Serve(t) PROVE TypeOK'
  BY <1>1, ServeTypes
<1>2. CASE Tick
  <2>1. BreakerTypeOK'
    BY <1>2, <1>0, BreakerTypes DEF TypeOK, Tick
  <2>2. rows' \in Seq(Nat) /\ failed' \in Seq(Nat)
    BY <1>2, AgedShrinks DEF TypeOK, Tick
  <2>3. elapsed' \in [Threads -> Nat] /\ clock' \in 0..1
    BY <1>2 DEF TypeOK, Tick
  <2> QED BY <1>2, <2>1, <2>2, <2>3 DEF TypeOK, Tick
<1>3. CASE RedisTurns
  <2>1. BreakerTypeOK'
    BY <1>3, <1>0, BreakerTypes DEF TypeOK, RedisTurns
  <2> QED BY <1>3, <2>1 DEF TypeOK, RedisTurns
<1>4. ASSUME NEW q \in Processes, Restart(q) PROVE TypeOK'
  <2>1. BreakerTypeOK'
    BY <1>4, BreakerTypes DEF TypeOK, Restart
  <2>2. pc' \in [Threads -> Labels] /\ elapsed' \in [Threads -> Nat]
    BY <1>4 DEF TypeOK, Restart, Labels
  <2>3. \A t \in Others : pc'[t] \in {"idle", "ask", "work", "refused"}
    BY <1>4 DEF TypeOK, Restart, Threads
  <2> QED BY <1>4, <2>1, <2>2, <2>3 DEF TypeOK, Restart
<1>5. CASE UNCHANGED vars
  BY <1>5 DEF TypeOK, BreakerTypeOK, vars, breaker, history
<1> QED BY <1>1, <1>2, <1>3, <1>4, <1>5 DEF Next

\* Every state of AiAssist is well typed; a core request's thread never
\* enters the labels of a suggestion.
THEOREM AssistTypeCorrect == Spec => []TypeOK
<1>1. ASSUME Init PROVE TypeOK
  <2>1. BreakerTypeOK
    BY <1>1 DEF Init, BreakerInit, BreakerTypeOK, LocalStates, LocalReset
  <2>2. rows \in Seq(Nat) /\ failed \in Seq(Nat)
    BY <1>1 DEF Init
  <2> QED BY <1>1, <2>1, <2>2 DEF Init, TypeOK, Labels, Threads
<1> QED BY <1>1, TypeStep, PTL DEF Spec
-----------------------------------------------------------------------------
\* The assistants whose request has passed the count and has no row yet.
Charged == {t \in Assistants : pc[t] \in Passed}

LEMMA ChargedFinite ==
  /\ IsFiniteSet(Charged) /\ Cardinality(Charged) \in Nat
  /\ Cardinality(Charged) <= Cardinality(Assistants)
  /\ Cardinality(Assistants) \in Nat
<1>1. Charged \subseteq Assistants
  BY DEF Charged
<1> QED BY <1>1, FS_Subset, FS_CardinalityType

\* With no new row, and no more requests charged, the sum does not grow.
LEMMA ChargesShrink ==
  ASSUME PassedAreCharged, TypeOK, TypeOK',
         Len(rows') <= Len(rows), Charged' \subseteq Charged
  PROVE  PassedAreCharged'
<1>1. Cardinality(Charged') <= Cardinality(Charged) /\ Cardinality(Charged') \in Nat
  BY ChargedFinite, FS_Subset, FS_CardinalityType
<1>2. Len(rows) \in Nat /\ Len(rows') \in Nat
  BY DEF TypeOK
<1> QED BY <1>1, <1>2, ChargedFinite DEF PassedAreCharged, Charged

LEMMA ChargedStep ==
  ASSUME PassedAreCharged, TypeOK, TypeOK', [Next]_vars
  PROVE  PassedAreCharged'
<1> USE DEF Passed, Recording
<1>0. Len(rows) \in Nat /\ Len(rows') \in Nat
  BY DEF TypeOK
<1>1. ASSUME NEW t \in Threads, Serve(t) PROVE PassedAreCharged'
  <2>1. CASE Count(t)
    <3>1. t \in Assistants /\ t \notin Charged
      BY <1>1, <2>1, InAssist DEF Count, Charged
    <3>2. Charged' = Charged \cup {t}
      BY <2>1, <3>1 DEF Count, Goto, Charged, TypeOK
    <3>3. Len(rows') = Len(rows) /\ Len(rows) < Limit
      BY <1>0, <2>1 DEF Count, LimitReached
    <3>4. Cardinality(Charged') \in Nat /\ Cardinality(Charged') <= Cardinality(Assistants)
      <4>1. Charged' \subseteq Assistants
        BY DEF Charged
      <4> QED BY <4>1, FS_Subset, FS_CardinalityType
    <3> QED BY <1>0, <3>3, <3>4, ChargedFinite DEF PassedAreCharged, Charged
  <2>2. CASE Record(t)
    <3>1. t \in Charged
      BY <1>1, <2>2, InAssist DEF Record, Charged
    <3>2. Charged' = Charged \ {t}
      BY <2>2, <3>1 DEF Record, Goto, Charged, TypeOK
    <3>3. Cardinality(Charged') = Cardinality(Charged) - 1
      BY <3>1, <3>2, ChargedFinite, FS_RemoveElement
    <3>4. Len(rows') = Len(rows) + 1
      BY <2>2 DEF Record, TypeOK
    <3> QED BY <1>0, <3>3, <3>4, ChargedFinite DEF PassedAreCharged, Charged
  <2>3. CASE ~(Count(t) \/ Record(t))
    <3>1. rows' = rows
      BY <1>1, <2>3 DEF Serve, Accept, Connect, Refuse, Work, Limited, Reject,
           Call, Fail, Answer, CountFailure, ExpireFailures, OpenCircuit,
           ClearFailures, FallBack, CountLocally, Reset, Forget
    <3>2. \E label \in Labels :
            /\ Goto(t, label)
            /\ label \in Passed => pc[t] \in Passed
      BY <1>1, <2>3 DEF Labels, Holding, Serve, Accept, Connect, Refuse, Work,
           Limited, Reject, Call, Fail, Answer, CountFailure, ExpireFailures,
           OpenCircuit, ClearFailures, FallBack, CountLocally, Reset, Forget
    <3>3. Charged' \subseteq Charged
      BY <3>2 DEF Goto, Charged, TypeOK
    <3> QED BY <1>0, <3>1, <3>3, ChargesShrink
  <2> QED BY <2>1, <2>2, <2>3
<1>2. CASE Tick
  <2>1. Len(rows') <= Len(rows)
    BY <1>2, AgedShrinks DEF Tick, TypeOK
  <2>2. Charged' = Charged
    BY <1>2 DEF Tick, Charged
  <2> QED BY <2>1, <2>2, ChargesShrink
<1>3. CASE RedisTurns \/ UNCHANGED vars
  <2>1. rows' = rows /\ pc' = pc
    BY <1>3 DEF RedisTurns, vars
  <2>2. Charged' = Charged
    BY <2>1 DEF Charged
  <2> QED BY <1>0, <2>1, <2>2, ChargesShrink
<1>4. ASSUME NEW p \in Processes, Restart(p) PROVE PassedAreCharged'
  <2>1. rows' = rows
    BY <1>4 DEF Restart
  <2>2. Charged' \subseteq Charged
    BY <1>4 DEF Restart, Charged, Threads
  <2> QED BY <1>0, <2>1, <2>2, ChargesShrink
<1> QED BY <1>1, <1>2, <1>3, <1>4 DEF Next

\* A request is charged from its count to its row, whatever happens to it.
THEOREM RequestsAreCharged == Spec => []PassedAreCharged
<1>1. Init => PassedAreCharged
  <2> SUFFICES ASSUME Init PROVE PassedAreCharged
    OBVIOUS
  <2>1. {t \in Assistants : pc[t] \in Passed} = {} /\ Len(rows) = 0
    BY DEF Init, Passed, Recording, Threads
  <2>2. Cardinality(Assistants) >= 1
    <3>1. PICK t \in Assistants : TRUE
      OBVIOUS
    <3>2. Cardinality(Assistants \ {t}) = Cardinality(Assistants) - 1
      BY FS_RemoveElement
    <3>3. Cardinality(Assistants \ {t}) \in Nat
      BY FS_RemoveElement, FS_CardinalityType
    <3> QED BY <3>2, <3>3, ChargedFinite
  <2>3. Cardinality({t \in Assistants : pc[t] \in Passed}) = 0
    BY <2>1, FS_EmptySet
  <2> QED BY <2>1, <2>2, <2>3, ChargedFinite DEF PassedAreCharged
<1> QED BY <1>1, ChargedStep, AssistTypeCorrect, PTL DEF Spec

\* The workspace limit is exceeded by fewer suggestions than there are
\* threads to make them.
THEOREM SuggestionsStayBounded == Spec => []SuggestionsBounded
<1>1. TypeOK /\ PassedAreCharged => SuggestionsBounded
  <2> SUFFICES ASSUME TypeOK, PassedAreCharged PROVE SuggestionsBounded
    OBVIOUS
  <2>1. Len(rows) \in Nat
    BY DEF TypeOK
  <2> QED BY <2>1, ChargedFinite DEF PassedAreCharged, SuggestionsBounded, Charged
<1> QED BY <1>1, AssistTypeCorrect, RequestsAreCharged, PTL
-----------------------------------------------------------------------------
\* What a tick does to a list of ages: the first g go, the others are a tick
\* older, and g counts at least as many as stand at the head with age max.
LEMMA AgedParts ==
  ASSUME NEW ages \in Seq(Nat), NEW max \in Int
  PROVE  \E g \in 0..Len(ages) :
           /\ Len(Aged(ages, max)) = Len(ages) - g
           /\ \A i \in 1..(Len(ages) - g) : Aged(ages, max)[i] = ages[i + g] + 1
           /\ \A k \in 0..Len(ages) : (\A i \in 1..k : ages[i] >= max) => k <= g
<1> DEFINE Gone == {i \in DOMAIN ages : ages[i] >= max}
           gone == Cardinality(Gone)
<1>1. DOMAIN ages = 1..Len(ages) /\ Len(ages) \in Nat
  OBVIOUS
<1>2. \A k \in Nat : IsFiniteSet(1..k) /\ Cardinality(1..k) = k
  BY FS_Interval
<1>3. Gone \subseteq 1..Len(ages)
  BY <1>1
<1>4. IsFiniteSet(Gone) /\ gone \in 0..Len(ages)
  BY <1>1, <1>2, <1>3, FS_Subset, FS_CardinalityType
<1>5. ASSUME NEW k \in 0..Len(ages), \A i \in 1..k : ages[i] >= max
      PROVE  k <= gone
  <2>1. 1..k \subseteq Gone
    BY <1>1, <1>5
  <2>2. Cardinality(1..k) = k
    BY <1>1, <1>2
  <2> QED
    BY <1>4, <2>1, <2>2, FS_Subset
<1>6. Aged(ages, max) = [i \in 1..(Len(ages) - gone) |-> ages[i + gone] + 1]
  BY DEF Aged
<1> HIDE DEF gone
<1>7. Len(ages) - gone \in Nat
  BY <1>1, <1>4
<1>8. Len(Aged(ages, max)) = Len(ages) - gone
  BY <1>6, <1>7
<1>9. \A i \in 1..(Len(ages) - gone) : Aged(ages, max)[i] = ages[i + gone] + 1
  BY <1>6
<1>10. \A k \in 0..Len(ages) : (\A i \in 1..k : ages[i] >= max) => k <= gone
  BY <1>5
<1>11. PICK g \in 0..Len(ages) : g = gone
  BY <1>4
<1> QED
  BY <1>8, <1>9, <1>10, <1>11, Zenon

\* How many assistants are at one of the labels ls, when p is pc.
Those(p, ls) == {t \in Assistants : p[t] \in ls}

Num(p, ls) == Cardinality(Those(p, ls))

LEMMA NumType ==
  ASSUME NEW p, NEW ls
  PROVE  /\ IsFiniteSet(Those(p, ls)) /\ Num(p, ls) \in Nat
         /\ Num(p, ls) <= Cardinality(Assistants)
         /\ Cardinality(Assistants) \in Nat
<1>1. Those(p, ls) \subseteq Assistants
  BY DEF Those
<1> QED
  BY <1>1, FS_Subset, FS_CardinalityType DEF Num

LEMMA NumShrinks ==
  ASSUME NEW p, NEW q, NEW ls, Those(q, ls) \subseteq Those(p, ls)
  PROVE  Num(q, ls) <= Num(p, ls)
<1>1. IsFiniteSet(Those(p, ls))
  BY NumType
<1>2. Cardinality(Those(q, ls)) <= Cardinality(Those(p, ls))
  BY <1>1, FS_Subset
<1> QED
  BY <1>2 DEF Num

\* An assistant is at one label.
LEMMA NumApart ==
  ASSUME NEW p, NEW ls, NEW ms, ls \cap ms = {}
  PROVE  Num(p, ls) + Num(p, ms) <= Cardinality(Assistants)
<1>1. Those(p, ls) \cap Those(p, ms) = {}
  BY DEF Those
<1>2. Those(p, ls) \cup Those(p, ms) \subseteq Assistants
  BY DEF Those
<1>3. Cardinality(Those(p, ls) \cup Those(p, ms)) = Num(p, ls) + Num(p, ms)
  <2>1. Cardinality(Those(p, ls) \cup Those(p, ms))
          = Cardinality(Those(p, ls)) + Cardinality(Those(p, ms))
              - Cardinality(Those(p, ls) \cap Those(p, ms))
    BY NumType, FS_Union
  <2>2. Cardinality(Those(p, ls) \cap Those(p, ms)) = 0
    BY <1>1, FS_EmptySet
  <2>3. Num(p, ls) \in Nat /\ Num(p, ms) \in Nat
    BY NumType
  <2> QED
    BY <2>1, <2>2, <2>3 DEF Num
<1> QED
  BY <1>2, <1>3, FS_Subset

\* An assistant's step changes a number by one or not at all.
LEMMA NumStays ==
  ASSUME pc \in [Threads -> Labels], NEW t \in Assistants, NEW l, NEW ls,
         pc' = [pc EXCEPT ![t] = l], pc[t] \in ls <=> l \in ls
  PROVE  Those(pc', ls) = Those(pc, ls) /\ Num(pc', ls) = Num(pc, ls)
<1>1. \A a \in Assistants : pc'[a] = IF a = t THEN l ELSE pc[a]
  BY DEF Threads
<1>2. Those(pc', ls) = Those(pc, ls)
  BY <1>1 DEF Those
<1> QED
  BY <1>2 DEF Num

LEMMA NumMoves ==
  ASSUME pc \in [Threads -> Labels], NEW t \in Assistants, NEW l, NEW ls,
         pc' = [pc EXCEPT ![t] = l]
  PROVE  /\ pc[t] \notin ls /\ l \in ls => Num(pc', ls) = Num(pc, ls) + 1
         /\ pc[t] \in ls /\ l \notin ls => Num(pc', ls) = Num(pc, ls) - 1
<1>1. t \in Threads
  BY DEF Threads
<1>2. ASSUME pc[t] \notin ls, l \in ls PROVE Num(pc', ls) = Num(pc, ls) + 1
  <2>1. Those(pc', ls) = Those(pc, ls) \cup {t} /\ t \notin Those(pc, ls)
    BY <1>1, <1>2 DEF Those, Threads
  <2>2. Cardinality(Those(pc', ls)) = Cardinality(Those(pc, ls)) + 1
    BY <2>1, NumType, FS_AddElement
  <2> QED
    BY <2>2 DEF Num
<1>3. ASSUME pc[t] \in ls, l \notin ls PROVE Num(pc', ls) = Num(pc, ls) - 1
  <2>1. Those(pc', ls) = Those(pc, ls) \ {t} /\ t \in Those(pc, ls)
    BY <1>1, <1>3 DEF Those, Threads
  <2>2. IsFiniteSet(Those(pc, ls))
    BY NumType
  <2>3. Cardinality(Those(pc, ls) \ {t}) = Cardinality(Those(pc, ls)) - 1
    BY <2>1, <2>2, FS_RemoveElement
  <2> QED
    BY <2>1, <2>3 DEF Num
<1> QED
  BY <1>2, <1>3

\* What of the count of failures still stands for failures counted: a count
\* at the threshold is about to open the breaker.
Spare == Threshold - 1
Pending == IF failures < Threshold THEN failures ELSE Spare

Opening == {"trip", "open"}
UnderWay == {"calling", "incr"}
Team == Cardinality(Assistants)

\* An outage of Redis starts the history again.
Unseen == ~redisUp => failed = << >>

\* The key "failures" outlives the failures it counts.
KeyOutlives ==
  failuresTtl > 0 /\ Those(pc, {"expire", "trip"}) = {}
    => \A i \in DOMAIN failed : failed[i] + failuresTtl >= Cooldown

\* Between the SET and the DEL of one thread no time passes.
JustOpened == Those(pc, {"clear"}) # {} => openTtl \in {0, Cooldown}

\* While calls are let through: every thread whose DEL is still to come has
\* used up what that DEL may take away.
ClosedBound ==
  openTtl = 0 /\ failed # << >>
    => Len(failed) + Spare * Num(pc, {"clear"})
         <= Spare * (Team - 1) + Pending + Num(pc, Opening)

\* While none is: only the calls under way can fail.
OpenBound == openTtl > 0 => Len(failed) + Num(pc, UnderWay) <= Team * Threshold

\* Failures of before the breaker opened are forgotten before it closes.
OldGoFirst ==
  openTtl > 0 /\ Those(pc, Opening) = {}
    => \A i \in DOMAIN failed :
         i + Pending <= Len(failed) => failed[i] + openTtl >= Cooldown

BoundInv ==
  /\ Unseen /\ KeyOutlives /\ JustOpened
  /\ ClosedBound /\ OpenBound /\ OldGoFirst

LEMMA TeamPositive == Team \in Nat \ {0}
<1>1. PICK t \in Assistants : TRUE
  OBVIOUS
<1>2. Team # 0
  BY <1>1, FS_EmptySet DEF Team
<1> QED
  BY <1>2, FS_CardinalityType DEF Team

\* The products of the bounds.
LEMMA Products ==
  ASSUME NEW c \in Nat, c <= Team
  PROVE  /\ Spare \in Nat /\ Spare * c \in Nat
         /\ Spare * (Team - 1) \in Nat
         /\ Team * Threshold = Spare * (Team - 1) + Spare + Team
         /\ Team * Threshold \in Nat /\ Team <= Team * Threshold
         /\ Spare * (c - 1) = Spare * c - Spare
         /\ c < Team => Spare * c <= Spare * (Team - 1)
<1>1. Spare \in Nat /\ Threshold = Spare + 1
  BY DEF Spare
<1>2. \A k, n \in Nat : n # 0 =>
        /\ k * n \in Nat /\ k * (n - 1) \in Nat
        /\ n * (k + 1) = k * (n - 1) + k + n
        /\ k * (n - 1) = k * n - k
  OBVIOUS
<1>3. \A k, a, b \in Nat : a <= b => k * a <= k * b
  OBVIOUS
<1>4. \A k, a \in Nat : k * a \in Nat /\ k * (a - 1) = k * a - k
  OBVIOUS
<1> HIDE DEF Spare
<1>5. c < Team => c <= Team - 1 /\ Team - 1 \in Nat
  BY TeamPositive
<1>6. Spare * (Team - 1) \in Nat /\ Team * (Spare + 1) = Spare * (Team - 1) + Spare + Team
  BY <1>1, <1>2, TeamPositive
<1>7. Team * Threshold = Spare * (Team - 1) + Spare + Team
  BY <1>1, <1>6
<1>8. c < Team => Spare * c <= Spare * (Team - 1)
  BY <1>1, <1>3, <1>5
<1> QED
  BY <1>1, <1>4, <1>6, <1>7, <1>8, TeamPositive
-----------------------------------------------------------------------------
\* A step that leaves no counted failure leaves nothing to bound.
LEMMA WipedKeeps ==
  ASSUME TypeOK', failed' = << >>, JustOpened'
  PROVE  BoundInv'
<1>1. Num(pc', UnderWay) \in Nat /\ Num(pc', UnderWay) <= Team
  BY NumType DEF Team
<1>2. Len(failed') = 0 /\ DOMAIN failed' = {}
  OBVIOUS
<1>3. Team <= Team * Threshold /\ Team * Threshold \in Nat /\ Team \in Nat
  BY Products, TeamPositive
<1>4. OpenBound'
  BY <1>1, <1>2, <1>3 DEF OpenBound
<1>5. Unseen' /\ KeyOutlives' /\ ClosedBound' /\ OldGoFirst'
  BY <1>2 DEF Unseen, KeyOutlives, ClosedBound, OldGoFirst
<1> QED
  BY <1>4, <1>5 DEF BoundInv

\* A step of a thread that runs no command of Redis, and lets no call through
\* while the breaker is open.
LEMMA QuietKeeps ==
  ASSUME TypeOK, TypeOK', BoundInv,
         UNCHANGED <<redisUp, openTtl, failures, failuresTtl, failed>>,
         Those(pc', {"clear"}) = Those(pc, {"clear"}),
         Those(pc', Opening) = Those(pc, Opening),
         Those(pc', {"expire", "trip"}) = Those(pc, {"expire", "trip"}),
         openTtl = 0 \/ Those(pc', UnderWay) \subseteq Those(pc, UnderWay)
  PROVE  BoundInv'
<1>1. /\ Num(pc', {"clear"}) = Num(pc, {"clear"})
      /\ Num(pc', Opening) = Num(pc, Opening)
  BY DEF Num
<1>2. openTtl = 0 \/ Num(pc', UnderWay) <= Num(pc, UnderWay)
  BY NumShrinks
<1>3. Pending' = Pending
  BY DEF Pending
<1>4. Unseen' /\ KeyOutlives' /\ JustOpened'
  BY DEF BoundInv, Unseen, KeyOutlives, JustOpened
<1>5. ClosedBound'
  BY <1>1, <1>3 DEF BoundInv, ClosedBound
<1>6. OpenBound'
  <2>1. Len(failed) \in Nat /\ openTtl \in Nat
    BY DEF TypeOK, BreakerTypeOK
  <2>2. Num(pc, UnderWay) \in Nat /\ Num(pc', UnderWay) \in Nat
    BY NumType
  <2>3. Team * Threshold \in Nat
    BY Products, TeamPositive
  <2> QED
    BY <1>2, <2>1, <2>2, <2>3 DEF BoundInv, OpenBound
<1>7. OldGoFirst'
  BY <1>3 DEF BoundInv, OldGoFirst
<1> QED
  BY <1>4, <1>5, <1>6, <1>7 DEF BoundInv

\* One more failure is counted.
LEMMA CountKeeps ==
  ASSUME TypeOK, TypeOK', BoundInv, NEW t \in Assistants, CountFailure(t)
  PROVE  BoundInv'
<1>0. PICK c, s, u : /\ c = Num(pc, {"clear"})
                     /\ s = Num(pc, Opening)
                     /\ u = Num(pc, UnderWay)
  OBVIOUS
<1>1. PICK l \in {"trip", "expire"} :
        /\ pc' = [pc EXCEPT ![t] = l]
        /\ l = "trip" <=> failures' >= Threshold
  BY DEF CountFailure, Goto
<1>2. /\ pc[t] = "incr" /\ redisUp /\ redisUp' = redisUp
      /\ openTtl' = openTtl /\ failuresTtl' = failuresTtl
      /\ failures' = Counted(failures) /\ failed' = Append(failed, 0)
  BY DEF CountFailure, Incr
<1>3. pc \in [Threads -> Labels]
  BY DEF TypeOK
<1>4. /\ Those(pc', {"clear"}) = Those(pc, {"clear"}) /\ Num(pc', {"clear"}) = c
      /\ Num(pc', Opening) = IF l = "trip" THEN s + 1 ELSE s
      /\ l = "expire" => Those(pc', Opening) = Those(pc, Opening)
      /\ Num(pc', UnderWay) = u - 1
  <2>1. /\ Those(pc', {"clear"}) = Those(pc, {"clear"})
        /\ Num(pc', {"clear"}) = c
    <3>1. pc[t] \notin {"clear"} /\ l \notin {"clear"}
      BY <1>2
    <3> QED
      BY <1>0, <1>1, <1>3, <3>1, NumStays
  <2>2. l = "trip" => Num(pc', Opening) = s + 1
    BY <1>0, <1>1, <1>2, <1>3, NumMoves DEF Opening
  <2>3. l = "expire" => /\ Those(pc', Opening) = Those(pc, Opening)
                        /\ Num(pc', Opening) = s
    <3>1. l = "expire" => pc[t] \notin Opening /\ l \notin Opening
      BY <1>2 DEF Opening
    <3> QED
      BY <1>0, <1>1, <1>3, <3>1, NumStays
  <2>4. Num(pc', UnderWay) = u - 1
    BY <1>0, <1>1, <1>2, <1>3, NumMoves DEF UnderWay
  <2> QED
    BY <2>1, <2>2, <2>3, <2>4
<1>5. /\ c \in Nat /\ s \in Nat /\ u \in Nat
      /\ c < Team
  <2>1. c + u <= Team
    BY <1>0, NumApart DEF UnderWay, Team
  <2>2. u # 0
    <3>1. t \in Those(pc, UnderWay)
      BY <1>2 DEF Those, UnderWay
    <3> QED
      BY <1>0, <3>1, NumType, FS_EmptySet DEF Num
  <2> QED
    BY <1>0, <2>1, <2>2, NumType, TeamPositive
<1>6. /\ Len(failed') = Len(failed) + 1 /\ Len(failed) \in Nat
      /\ failed' # << >>
      /\ \A i \in 1..Len(failed) : failed'[i] = failed[i]
      /\ DOMAIN failed' = 1..(Len(failed) + 1) /\ DOMAIN failed = 1..Len(failed)
  BY <1>2 DEF TypeOK
<1>7. /\ Pending \in Nat /\ Pending' \in Nat
      /\ l = "expire" => Pending' = Pending + 1
      /\ l = "trip" => Pending' = Spare /\ Pending <= Spare /\ Pending >= Spare
      /\ Spare \in Nat /\ failures' \in Nat /\ failures \in Nat
  BY <1>1, <1>2 DEF Pending, Counted, Spare, TypeOK, BreakerTypeOK
<1>8. Unseen' /\ JustOpened'
  BY <1>2, <1>4 DEF BoundInv, Unseen, JustOpened
<1>9. KeyOutlives'
  <2>1. t \in Those(pc', {"expire", "trip"})
    BY <1>1, <1>3 DEF Those, Threads
  <2> QED
    BY <2>1 DEF KeyOutlives
<1>10. ClosedBound'
  <2> SUFFICES ASSUME openTtl = 0
               PROVE  Len(failed) + 1 + Spare * c
                        <= Spare * (Team - 1) + Pending' + Num(pc', Opening)
    BY <1>0, <1>2, <1>4, <1>6 DEF ClosedBound
  <2>1. /\ Spare * c \in Nat /\ Spare * (Team - 1) \in Nat
        /\ Spare * c <= Spare * (Team - 1)
    BY <1>5, Products, TeamPositive
  <2>2. /\ Pending' + Num(pc', Opening) = Pending + s + 1
        /\ Num(pc', Opening) \in Nat
    BY <1>1, <1>4, <1>5, <1>7
  <2>3. CASE failed = << >>
    <3>1. Len(failed) = 0
      BY <2>3
    <3> QED
      BY <1>5, <1>7, <2>1, <2>2, <3>1
  <2>4. CASE failed # << >>
    <3>1. Len(failed) + Spare * c <= Spare * (Team - 1) + Pending + s
      BY <1>0, <2>4 DEF BoundInv, ClosedBound
    <3>2. PICK v, w \in Nat : v = Spare * c /\ w = Spare * (Team - 1)
      BY <2>1
    <3>3. Len(failed) + v <= w + Pending + s
      BY <3>1, <3>2
    <3>4. Len(failed) + 1 + v <= w + Pending' + Num(pc', Opening)
      BY <1>5, <1>6, <1>7, <2>2, <3>3
    <3> QED
      BY <3>2, <3>4
  <2> QED
    BY <2>3, <2>4
<1>11. OpenBound'
  <2>1. Team * Threshold \in Nat
    BY Products, TeamPositive
  <2> QED
    BY <1>0, <1>2, <1>4, <1>5, <1>6, <2>1 DEF BoundInv, OpenBound
<1>12. OldGoFirst'
  <2> SUFFICES ASSUME openTtl > 0, Those(pc', Opening) = {},
                      NEW i \in 1..(Len(failed) + 1), i + Pending' <= Len(failed) + 1
               PROVE  failed'[i] + openTtl >= Cooldown
    BY <1>2, <1>6 DEF OldGoFirst
  <2>1. l = "expire"
    <3>1. l = "trip" => t \in Those(pc', Opening)
      BY <1>1, <1>3 DEF Those, Threads, Opening
    <3> QED
      BY <1>1, <3>1
  <2>2. Those(pc, Opening) = {}
    BY <1>4, <2>1
  <2>3. i \in 1..Len(failed) /\ i + Pending <= Len(failed)
    BY <1>6, <1>7, <2>1
  <2>4. failed[i] + openTtl >= Cooldown
    BY <1>6, <2>2, <2>3 DEF BoundInv, OldGoFirst
  <2> QED
    BY <1>6, <2>3, <2>4
<1> QED
  BY <1>8, <1>9, <1>10, <1>11, <1>12 DEF BoundInv

\* The key is given its time to live.
LEMMA ExpireKeeps ==
  ASSUME TypeOK, TypeOK', BoundInv, NEW t \in Assistants, ExpireFailures(t)
  PROVE  BoundInv'
<1>1. PICK l \in {"open", "idle"} :
        /\ pc' = [pc EXCEPT ![t] = l]
        /\ pc[t] = IF l = "open" THEN "trip" ELSE "expire"
  BY DEF ExpireFailures, Goto
<1>2. /\ redisUp' = redisUp /\ openTtl' = openTtl /\ failures' = failures
      /\ failuresTtl' \in {0, Cooldown} /\ failed' = failed
  BY DEF ExpireFailures, Expire, history
<1>3. pc \in [Threads -> Labels] /\ failed \in Seq(Nat)
  BY DEF TypeOK
<1>4. /\ Those(pc', {"clear"}) = Those(pc, {"clear"})
      /\ Num(pc', {"clear"}) = Num(pc, {"clear"})
      /\ Num(pc', UnderWay) = Num(pc, UnderWay)
  <2>1. /\ pc[t] \in {"clear"} <=> l \in {"clear"}
        /\ pc[t] \in UnderWay <=> l \in UnderWay
    BY <1>1 DEF UnderWay
  <2>2. /\ Those(pc', {"clear"}) = Those(pc, {"clear"})
        /\ Num(pc', {"clear"}) = Num(pc, {"clear"})
    BY <1>1, <1>3, <2>1, NumStays
  <2>3. Num(pc', UnderWay) = Num(pc, UnderWay)
    BY <1>1, <1>3, <2>1, NumStays
  <2> QED
    BY <2>2, <2>3
<1>5. /\ Those(pc', Opening) = Those(pc, Opening)
      /\ Num(pc', Opening) = Num(pc, Opening)
  <2>1. pc[t] \in Opening <=> l \in Opening
    BY <1>1 DEF Opening
  <2> QED
    BY <1>1, <1>3, <2>1, NumStays
<1>6. Pending' = Pending
  BY <1>2 DEF Pending
<1>7. Unseen' /\ JustOpened'
  BY <1>2, <1>4 DEF BoundInv, Unseen, JustOpened
<1>8. KeyOutlives'
  <2>1. failuresTtl' > 0 => \A i \in DOMAIN failed : failed[i] + Cooldown >= Cooldown
    BY <1>3
  <2> QED
    BY <1>2, <2>1 DEF KeyOutlives
<1>9. ClosedBound' /\ OpenBound' /\ OldGoFirst'
  BY <1>2, <1>4, <1>5, <1>6 DEF BoundInv, ClosedBound, OpenBound, OldGoFirst
<1> QED
  BY <1>7, <1>8, <1>9 DEF BoundInv

\* The breaker opens: what was counted until now is below the bound by the
\* calls that are under way.
LEMMA OpenKeeps ==
  ASSUME TypeOK, TypeOK', BoundInv, NEW t \in Assistants, OpenCircuit(t)
  PROVE  BoundInv'
<1>0. PICK c, s, u : /\ c = Num(pc, {"clear"})
                     /\ s = Num(pc, Opening)
                     /\ u = Num(pc, UnderWay)
  OBVIOUS
<1>1. pc' = [pc EXCEPT ![t] = "clear"] /\ pc[t] = "open"
  BY DEF OpenCircuit, Goto
<1>2. /\ redisUp' = redisUp /\ openTtl' = Cooldown /\ failures' = failures
      /\ failuresTtl' = failuresTtl /\ failed' = failed
  BY DEF OpenCircuit, SetOpen
<1>3. pc \in [Threads -> Labels] /\ failed \in Seq(Nat) /\ openTtl \in Nat
  BY DEF TypeOK, BreakerTypeOK
<1>4. /\ Those(pc', {"expire", "trip"}) = Those(pc, {"expire", "trip"})
      /\ Num(pc', UnderWay) = u
  <2>1. /\ pc[t] \in {"expire", "trip"} <=> "clear" \in {"expire", "trip"}
        /\ pc[t] \in UnderWay <=> "clear" \in UnderWay
    BY <1>1 DEF UnderWay
  <2>2. Those(pc', {"expire", "trip"}) = Those(pc, {"expire", "trip"})
    BY <1>1, <1>3, <2>1, NumStays
  <2>3. Num(pc', UnderWay) = u
    BY <1>0, <1>1, <1>3, <2>1, NumStays
  <2> QED
    BY <2>2, <2>3
<1>5. Unseen' /\ JustOpened' /\ KeyOutlives'
  BY <1>2, <1>4 DEF BoundInv, Unseen, JustOpened, KeyOutlives
<1>6. OldGoFirst'
  <2>1. \A i \in DOMAIN failed : failed[i] + Cooldown >= Cooldown
    BY <1>3
  <2> QED
    BY <1>2, <2>1 DEF OldGoFirst
<1>7. ClosedBound'
  BY <1>2 DEF ClosedBound
<1>8. Len(failed) + u <= Team * Threshold
  <2>1. /\ c \in Nat /\ s \in Nat /\ u \in Nat
        /\ c <= Team /\ s + u <= Team /\ Team \in Nat
    <3>1. s + u <= Team
      BY <1>0, NumApart DEF Opening, UnderWay, Team
    <3> QED
      BY <1>0, <3>1, NumType DEF Team
  <2>2. PICK v, w, x \in Nat :
          /\ v = Spare * c /\ w = Spare * (Team - 1) /\ x = Team * Threshold
          /\ x = w + Spare + Team /\ Spare \in Nat
    BY <2>1, Products
  <2>3. CASE failed = << >>
    <3>1. Len(failed) = 0
      BY <2>3
    <3> QED
      BY <2>1, <2>2, <3>1
  <2>4. CASE openTtl = 0 /\ failed # << >>
    <3>1. Pending \in Nat /\ Pending <= Spare
      BY DEF Pending, Spare, TypeOK, BreakerTypeOK
    <3>2. Len(failed) + v <= w + Pending + s
      BY <1>0, <2>2, <2>4 DEF BoundInv, ClosedBound
    <3>3. Len(failed) \in Nat
      BY <1>3
    <3>4. Len(failed) + u <= x
      BY <2>1, <2>2, <3>1, <3>2, <3>3
    <3> QED
      BY <2>2, <3>4
  <2>5. CASE openTtl > 0
    BY <1>0, <2>5 DEF BoundInv, OpenBound
  <2> QED
    BY <1>3, <2>3, <2>4, <2>5
<1>9. OpenBound'
  BY <1>2, <1>4, <1>8 DEF OpenBound
<1> QED
  BY <1>5, <1>6, <1>7, <1>9 DEF BoundInv

\* The DEL of a thread that has opened the breaker takes away what Pending
\* counts, and no more than its share.
LEMMA ClearKeeps ==
  ASSUME TypeOK, TypeOK', BoundInv, NEW t \in Assistants, ClearFailures(t)
  PROVE  BoundInv'
<1>0. PICK c, s : c = Num(pc, {"clear"}) /\ s = Num(pc, Opening)
  OBVIOUS
<1>1. pc' = [pc EXCEPT ![t] = "idle"] /\ pc[t] = "clear"
  BY DEF ClearFailures, Goto
<1>2. /\ redisUp' = redisUp /\ openTtl' = openTtl /\ failures' = 0
      /\ failuresTtl' = 0 /\ failed' = failed
  BY DEF ClearFailures, DeleteFailures, history
<1>3. pc \in [Threads -> Labels] /\ failed \in Seq(Nat) /\ openTtl \in Nat
  BY DEF TypeOK, BreakerTypeOK
<1>4. /\ Num(pc', {"clear"}) = c - 1
      /\ Num(pc', UnderWay) = Num(pc, UnderWay)
  <2>1. /\ pc[t] \in {"clear"} /\ "idle" \notin {"clear"}
        /\ pc[t] \in UnderWay <=> "idle" \in UnderWay
    BY <1>1 DEF UnderWay
  <2>2. Num(pc', {"clear"}) = c - 1
    BY <1>0, <1>1, <1>3, <2>1, NumMoves
  <2>3. Num(pc', UnderWay) = Num(pc, UnderWay)
    BY <1>1, <1>3, <2>1, NumStays
  <2> QED
    BY <2>2, <2>3
<1>5. Num(pc', Opening) = s
  <2>1. pc[t] \notin Opening /\ "idle" \notin Opening
    BY <1>1 DEF Opening
  <2> QED
    BY <1>0, <1>1, <1>3, <2>1, NumStays
<1>6. openTtl \in {0, Cooldown}
  <2>1. t \in Those(pc, {"clear"})
    BY <1>1 DEF Those
  <2> QED
    BY <2>1 DEF BoundInv, JustOpened
<1>7. Unseen' /\ JustOpened' /\ KeyOutlives'
  BY <1>2, <1>6 DEF BoundInv, Unseen, JustOpened, KeyOutlives
<1>8. OldGoFirst'
  <2>1. \A i \in DOMAIN failed : failed[i] + Cooldown >= Cooldown
    BY <1>3
  <2> QED
    BY <1>2, <1>6, <2>1 DEF OldGoFirst
<1>9. OpenBound'
  BY <1>2, <1>4 DEF BoundInv, OpenBound
<1>10. ClosedBound'
  <2> SUFFICES ASSUME openTtl = 0, failed # << >>
               PROVE  Len(failed) + Spare * (c - 1) <= Spare * (Team - 1) + Pending' + s
    BY <1>2, <1>4, <1>5 DEF ClosedBound
  <2>1. c \in Nat /\ s \in Nat /\ c <= Team
    BY <1>0, NumType DEF Team
  <2>2. Pending' = 0 /\ Pending \in Nat /\ Pending <= Spare
    BY <1>2 DEF Pending, Spare, TypeOK, BreakerTypeOK
  <2>3. PICK v, w \in Nat :
          /\ v = Spare * c /\ w = Spare * (Team - 1)
          /\ Spare * (c - 1) = v - Spare /\ Spare \in Nat
    BY <2>1, Products
  <2>4. Len(failed) + v <= w + Pending + s /\ Len(failed) \in Nat
    BY <1>0, <1>3, <2>3 DEF BoundInv, ClosedBound
  <2>5. Len(failed) + (v - Spare) <= w + Pending' + s
    BY <2>1, <2>2, <2>3, <2>4
  <2> QED
    BY <2>3, <2>5
<1> QED
  BY <1>7, <1>8, <1>9, <1>10 DEF BoundInv

\* A tick finds no thread between two commands of Redis.
LEMMA TickKeeps ==
  ASSUME TypeOK, TypeOK', BoundInv, Tick
  PROVE  BoundInv'
<1>1. /\ Those(pc, {"clear"}) = {} /\ Those(pc, Opening) = {}
      /\ Those(pc, {"expire", "trip"}) = {}
  BY DEF Tick, MayWait, Those, Opening, Threads
<1>2. pc' = pc /\ redisUp' = redisUp /\ failed' = Aged(failed, Cooldown - 1)
  BY DEF Tick, Lapse
<1>3. /\ openTtl' = OneLess(openTtl) /\ failuresTtl' = OneLess(failuresTtl)
      /\ failures' = IF failuresTtl = 1 THEN 0 ELSE failures
  BY DEF Tick, Lapse
<1>4. /\ openTtl \in Nat /\ failuresTtl \in Nat /\ failures \in Nat
      /\ failed \in Seq(Nat) /\ failed' \in Seq(Nat) /\ Cooldown - 1 \in Int
  BY DEF TypeOK, BreakerTypeOK
<1>5. PICK n \in Nat : n = Len(failed)
  BY <1>4
<1>6. PICK g \in 0..n :
        /\ Len(failed') = n - g
        /\ \A i \in 1..(n - g) : failed'[i] = failed[i + g] + 1
        /\ \A k \in 0..n : (\A i \in 1..k : failed[i] >= Cooldown - 1) => k <= g
  BY <1>2, <1>4, <1>5, AgedParts
<1>7. /\ DOMAIN failed = 1..n /\ DOMAIN failed' = 1..(n - g)
      /\ \A i \in 1..n : failed[i] \in Nat
      /\ failed' # << >> => failed # << >> /\ g < n
  <2>1. Len(<< >>) = 0 /\ \A q \in Seq(Nat) : Len(q) = 0 => q = << >>
    OBVIOUS
  <2> QED
    BY <1>4, <1>5, <1>6, <2>1
<1>8. CASE failed' = << >>
  <2>1. JustOpened'
    BY <1>1, <1>2 DEF JustOpened
  <2> QED
    BY <1>8, <2>1, WipedKeeps
<1>9. CASE failed' # << >>
  <2>1. failuresTtl # 1
    <3>1. failuresTtl = 1 => \A i \in 1..n : failed[i] >= Cooldown - 1
      <4> SUFFICES ASSUME failuresTtl = 1, NEW i \in 1..n
                   PROVE  failed[i] >= Cooldown - 1
        OBVIOUS
      <4>1. failuresTtl > 0 /\ i \in DOMAIN failed
        BY <1>7
      <4>2. failed[i] + failuresTtl >= Cooldown
        BY <1>1, <4>1 DEF BoundInv, KeyOutlives
      <4> QED
        BY <1>7, <4>2
    <3>2. (\A i \in 1..n : failed[i] >= Cooldown - 1) => n <= g
      BY <1>5, <1>6
    <3>3. g < n /\ g \in Nat /\ n \in Nat
      BY <1>5, <1>6, <1>7, <1>9
    <3> QED
      BY <3>1, <3>2, <3>3
  <2>2. /\ Pending' = Pending /\ Pending \in Nat
    BY <1>3, <1>4, <2>1 DEF Pending, Spare
  <2>3. Unseen'
    BY <1>2, <1>7, <1>9 DEF BoundInv, Unseen
  <2>4. JustOpened'
    BY <1>1, <1>2 DEF JustOpened
  <2>5. KeyOutlives'
    <3> SUFFICES ASSUME failuresTtl' > 0, NEW i \in 1..(n - g)
                 PROVE  failed'[i] + failuresTtl' >= Cooldown
      BY <1>7 DEF KeyOutlives
    <3>1. failuresTtl > 0 /\ failuresTtl' = failuresTtl - 1
      BY <1>3, <1>4 DEF OneLess
    <3>2. i + g \in 1..n
      OBVIOUS
    <3>3. failed[i + g] + failuresTtl >= Cooldown
      BY <1>1, <1>7, <3>1, <3>2 DEF BoundInv, KeyOutlives
    <3>4. failed'[i] = failed[i + g] + 1 /\ failed[i + g] \in Nat
      BY <1>6, <1>7, <3>2
    <3> QED
      BY <1>4, <3>1, <3>3, <3>4
  <2>6. OpenBound'
    <3>1. openTtl' > 0 => openTtl > 0
      BY <1>3, <1>4 DEF OneLess
    <3>2. Num(pc, UnderWay) \in Nat /\ Team * Threshold \in Nat
      BY NumType, Products, TeamPositive
    <3> QED
      BY <1>2, <1>5, <1>6, <3>1, <3>2 DEF BoundInv, OpenBound
  <2>7. ClosedBound'
    <3> SUFFICES ASSUME openTtl' = 0
                 PROVE  n - g + Spare * Num(pc, {"clear"})
                          <= Spare * (Team - 1) + Pending + Num(pc, Opening)
      BY <1>2, <1>6, <2>2 DEF ClosedBound
    <3>1. Num(pc, {"clear"}) = 0 /\ Num(pc, Opening) = 0
      BY <1>1, FS_EmptySet DEF Num
    <3>2. PICK w \in Nat : w = Spare * (Team - 1) /\ Spare * 0 = 0 /\ Spare \in Nat
      BY Products, TeamPositive DEF Spare
    <3>3. CASE openTtl = 0
      <4>1. n + Spare * 0 <= w + Pending + 0
        BY <1>5, <1>7, <1>9, <3>1, <3>2, <3>3 DEF BoundInv, ClosedBound
      <4> QED
        BY <2>2, <3>1, <3>2, <4>1
    <3>4. CASE openTtl = 1
      <4>1. \A i \in 1..n : i + Pending <= n => failed[i] >= Cooldown - 1
        BY <1>1, <1>5, <1>7, <3>4 DEF BoundInv, OldGoFirst
      <4>2. n - g <= Pending
        <5>1. CASE n <= Pending
          BY <2>2, <5>1
        <5>2. CASE n > Pending
          <6>1. n - Pending \in 0..n /\ \A i \in 1..(n - Pending) : i \in 1..n /\ i + Pending <= n
            BY <2>2, <5>2
          <6>2. n - Pending <= g
            BY <1>6, <4>1, <6>1
          <6> QED
            BY <2>2, <6>2
        <5> QED
          BY <2>2, <5>1, <5>2
      <4> QED
        BY <2>2, <3>1, <3>2, <4>2
    <3> QED
      BY <1>3, <1>4, <3>3, <3>4 DEF OneLess
  <2>8. OldGoFirst'
    <3> SUFFICES ASSUME openTtl' > 0, NEW i \in 1..(n - g), i + Pending <= n - g
                 PROVE  failed'[i] + openTtl' >= Cooldown
      BY <1>6, <1>7, <2>2 DEF OldGoFirst
    <3>1. openTtl > 0 /\ openTtl' = openTtl - 1
      BY <1>3, <1>4 DEF OneLess
    <3>2. i + g \in 1..n /\ (i + g) + Pending <= n
      BY <2>2
    <3>3. failed[i + g] + openTtl >= Cooldown
      BY <1>1, <1>5, <1>7, <3>1, <3>2 DEF BoundInv, OldGoFirst
    <3>4. failed'[i] = failed[i + g] + 1 /\ failed[i + g] \in Nat
      BY <1>6, <1>7, <3>2
    <3> QED
      BY <1>4, <3>1, <3>3, <3>4
  <2> QED
    BY <2>3, <2>4, <2>5, <2>6, <2>7, <2>8 DEF BoundInv
<1> QED
  BY <1>8, <1>9

\* What the other steps of a thread do to the labels that the bound counts.
LEMMA ServeKeeps ==
  ASSUME TypeOK, TypeOK', BoundInv, NEW t \in Threads, Serve(t)
  PROVE  BoundInv'
<1>0. pc \in [Threads -> Labels]
  BY DEF TypeOK
<1>1. CASE CountFailure(t)
  <2>1. t \in Assistants
    BY <1>1, InAssist DEF CountFailure
  <2> QED
    BY <1>1, <2>1, CountKeeps
<1>2. CASE ExpireFailures(t)
  <2>1. t \in Assistants
    BY <1>2, InAssist DEF ExpireFailures
  <2> QED
    BY <1>2, <2>1, ExpireKeeps
<1>3. CASE OpenCircuit(t)
  <2>1. t \in Assistants
    BY <1>3, InAssist DEF OpenCircuit
  <2> QED
    BY <1>3, <2>1, OpenKeeps
<1>4. CASE ClearFailures(t)
  <2>1. t \in Assistants
    BY <1>4, InAssist DEF ClearFailures
  <2> QED
    BY <1>4, <2>1, ClearKeeps
<1>5. CASE Forget(t)
  <2>1. failed' = << >> /\ openTtl' \in {0, openTtl}
    BY <1>5 DEF Forget, ResetDistributedCircuit
  <2>2. Those(pc', {"clear"}) \subseteq Those(pc, {"clear"})
    BY <1>0, <1>5 DEF Forget, Goto, Those, Threads
  <2>3. JustOpened'
    BY <2>1, <2>2 DEF BoundInv, JustOpened
  <2> QED
    BY <2>1, <2>3, WipedKeeps
<1>6. CASE FallBack(t)
  <2>1. failed' = << >> /\ openTtl' = openTtl
    BY <1>6 DEF FallBack, history, breaker, BoundInv, Unseen
  <2>2. Those(pc', {"clear"}) \subseteq Those(pc, {"clear"})
    BY <1>0, <1>6 DEF FallBack, Goto, Those, Threads
  <2>3. JustOpened'
    BY <2>1, <2>2 DEF BoundInv, JustOpened
  <2> QED
    BY <2>1, <2>3, WipedKeeps
<1>7. CASE Call(t)
  <2>1. /\ UNCHANGED <<redisUp, openTtl, failures, failuresTtl, failed>>
        /\ redisUp => openTtl = 0
        /\ pc[t] = "gate" /\ pc' = [pc EXCEPT ![t] = "calling"]
    <3>1. openTtl \in Nat
      BY DEF TypeOK, BreakerTypeOK
    <3> QED
      BY <1>7, <3>1 DEF Call, AssertClosed, CircuitOpen, Goto, history
  <2>2. /\ Those(pc', {"clear"}) = Those(pc, {"clear"})
        /\ Those(pc', Opening) = Those(pc, Opening)
        /\ Those(pc', {"expire", "trip"}) = Those(pc, {"expire", "trip"})
    BY <1>0, <2>1 DEF Those, Threads, Opening
  <2>3. CASE redisUp
    BY <2>1, <2>2, <2>3, QuietKeeps
  <2>4. CASE ~redisUp
    <3>1. failed' = << >>
      BY <2>1, <2>4 DEF BoundInv, Unseen
    <3>2. JustOpened'
      BY <2>1, <2>2 DEF BoundInv, JustOpened
    <3> QED
      BY <3>1, <3>2, WipedKeeps
  <2> QED
    BY <2>3, <2>4
<1>8. CASE ~(\/ CountFailure(t) \/ ExpireFailures(t) \/ OpenCircuit(t)
             \/ ClearFailures(t) \/ Forget(t) \/ FallBack(t) \/ Call(t))
  <2>1. UNCHANGED <<redisUp, openTtl, failures, failuresTtl, failed>>
    BY <1>8 DEF Serve, Accept, Connect, Refuse, Work, Limited, Count, Reject,
         Fail, Answer, CountLocally, RecordLocally, Reset, ResetCircuit, Record,
         breaker, history
  <2>2. PICK l \in Labels :
          /\ pc' = [pc EXCEPT ![t] = l]
          /\ {pc[t], l} \cap {"clear", "trip", "open", "expire"} = {}
          /\ l \in UnderWay => pc[t] \in UnderWay
    <3>1. CASE Accept(t) \/ Connect(t) \/ Refuse(t) \/ Work(t)
      BY <3>1 DEF Accept, Connect, Refuse, Work, Goto, Labels, Holding, UnderWay
    <3>2. CASE Limited(t) \/ Count(t) \/ Reject(t) \/ Fail(t) \/ Answer(t)
      BY <3>2 DEF Limited, Count, Reject, Fail, Answer, Goto, Labels, Holding,
           Recording, UnderWay
    <3>3. CASE CountLocally(t) \/ Reset(t) \/ Record(t)
      BY <3>3 DEF CountLocally, Reset, Record, Goto, Labels, Holding, UnderWay
    <3> QED
      BY <1>8, <3>1, <3>2, <3>3 DEF Serve
  <2>3. /\ Those(pc', {"clear"}) = Those(pc, {"clear"})
        /\ Those(pc', Opening) = Those(pc, Opening)
        /\ Those(pc', {"expire", "trip"}) = Those(pc, {"expire", "trip"})
    BY <1>0, <2>2 DEF Those, Threads, Opening
  <2>4. Those(pc', UnderWay) \subseteq Those(pc, UnderWay)
    BY <1>0, <2>2 DEF Those, Threads
  <2> QED
    BY <2>1, <2>3, <2>4, QuietKeeps
<1> QED
  BY <1>1, <1>2, <1>3, <1>4, <1>5, <1>6, <1>7, <1>8

LEMMA BoundStep ==
  ASSUME TypeOK, TypeOK', BoundInv, [Next]_vars
  PROVE  BoundInv'
<1>1. ASSUME NEW t \in Threads, Serve(t) PROVE BoundInv'
  BY <1>1, ServeKeeps
<1>2. CASE Tick
  BY <1>2, TickKeeps
<1>3. CASE RedisTurns
  <2>1. failed' = << >> /\ openTtl' = openTtl /\ pc' = pc
    BY <1>3 DEF RedisTurns, ToggleRedis
  <2>2. JustOpened'
    BY <2>1 DEF BoundInv, JustOpened
  <2> QED
    BY <2>1, <2>2, WipedKeeps
<1>4. ASSUME NEW p \in Processes, Restart(p) PROVE BoundInv'
  <2>1. failed' = << >> /\ openTtl' = openTtl
    BY <1>4 DEF Restart, ResetCircuit
  <2>2. Those(pc', {"clear"}) \subseteq Those(pc, {"clear"})
    BY <1>4 DEF Restart, Those, Threads
  <2>3. JustOpened'
    BY <2>1, <2>2 DEF BoundInv, JustOpened
  <2> QED
    BY <2>1, <2>3, WipedKeeps
<1>5. CASE UNCHANGED vars
  <2>1. /\ UNCHANGED <<redisUp, openTtl, failures, failuresTtl, failed>>
        /\ pc' = pc
    BY <1>5 DEF vars, breaker, history
  <2> QED
    BY <2>1, QuietKeeps
<1> QED
  BY <1>1, <1>2, <1>3, <1>4, <1>5 DEF Next

\* Within one cooldown Redis counts no more failures of the model than the
\* threshold for every thread that may call it, whatever outages, restarts and
\* late commands of other threads come between.
THEOREM FailuresStayBounded == Spec => []FailuresBounded
<1>1. Init => BoundInv
  <2> SUFFICES ASSUME Init PROVE BoundInv
    OBVIOUS
  <2>1. failed = << >> /\ openTtl = 0 /\ failuresTtl = 0
    BY DEF Init, BreakerInit
  <2> QED
    BY <2>1 DEF BoundInv, Unseen, KeyOutlives, JustOpened, ClosedBound,
         OpenBound, OldGoFirst
<1>2. TypeOK /\ BoundInv => FailuresBounded
  <2> SUFFICES ASSUME TypeOK, BoundInv PROVE Len(failed) <= Team * Threshold
    <3>1. Team * Threshold = Threshold * Cardinality(Assistants)
      BY TeamPositive DEF Team
    <3> QED
      BY <3>1 DEF FailuresBounded
  <2>1. PICK c, s, u \in Nat :
          /\ c = Num(pc, {"clear"}) /\ s = Num(pc, Opening)
          /\ u = Num(pc, UnderWay) /\ c <= Team /\ s <= Team /\ Team \in Nat
    BY NumType DEF Team
  <2>2. PICK v, w, x \in Nat :
          /\ v = Spare * c /\ w = Spare * (Team - 1) /\ x = Team * Threshold
          /\ x = w + Spare + Team /\ Spare \in Nat
    BY <2>1, Products
  <2>3. Len(failed) \in Nat /\ openTtl \in Nat
    BY DEF TypeOK, BreakerTypeOK
  <2>4. CASE failed = << >>
    <3>1. Len(failed) = 0
      BY <2>4
    <3> QED
      BY <2>2, <3>1
  <2>5. CASE openTtl = 0 /\ failed # << >>
    <3>1. Pending \in Nat /\ Pending <= Spare
      BY DEF Pending, Spare, TypeOK, BreakerTypeOK
    <3>2. Len(failed) + v <= w + Pending + s
      BY <2>1, <2>2, <2>5 DEF BoundInv, ClosedBound
    <3>3. Len(failed) <= x
      BY <2>1, <2>2, <2>3, <3>1, <3>2
    <3> QED
      BY <2>2, <3>3
  <2>6. CASE openTtl > 0
    <3>1. Len(failed) + u <= x
      BY <2>1, <2>2, <2>6 DEF BoundInv, OpenBound
    <3>2. Len(failed) <= x
      BY <2>1, <2>2, <2>3, <3>1
    <3> QED
      BY <2>2, <3>2
  <2> QED
    BY <2>3, <2>4, <2>5, <2>6
<1> QED
  BY <1>1, <1>2, BoundStep, AssistTypeCorrect, PTL DEF Spec
=============================================================================
