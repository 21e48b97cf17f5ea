------------------------------ MODULE AiAssist ------------------------------
(***************************************************************************)
(* POST .../ai/suggestions: the workspace's limit on recent suggestions,   *)
(* the circuit breaker of CircuitBreaker, the call of the model, and the   *)
(* database connection that the request holds from its first query to its  *)
(* end, the call included.  Other requests ("core") need a connection of   *)
(* the same pool for a moment.                                             *)
(*                                                                         *)
(* Everything but the call and the wait for a connection takes no time:    *)
(* a tick passes only when no thread has anything else to do.  A thread    *)
(* serves one request after another, always of one kind: a thread of the   *)
(* code that serves both kinds is one of each here, of which one idles.    *)
(***************************************************************************)
EXTENDS CircuitBreaker, Sequences, FiniteSets

CONSTANTS
  Assistants,   \* worker threads that serve requests for suggestions
  Others,       \* worker threads that serve core requests
  ProcessOf,    \* the process of each thread
  PoolSize,     \* connections of a process (pool_size + max_overflow)
  PoolTimeout,  \* ticks that a request waits for one
  Window,       \* the 60 seconds of count_recent_for_workspace, in ticks
  Limit,        \* llm_workspace_requests_per_minute
  MayBreak      \* whether Redis fails and processes restart

Threads == Assistants \cup Others

ASSUME AssistConstants ==
  /\ IsFiniteSet(Assistants) /\ Assistants # {}
  /\ Assistants \cap Others = {}
  /\ ProcessOf \in [Threads -> Processes]
  /\ PoolSize \in Nat \ {0} /\ PoolTimeout \in Nat
  /\ Window \in Nat /\ Limit \in Nat
  /\ MayBreak \in BOOLEAN

VARIABLES
  clock,    \* parity of the ticks passed: a tick is never a stutter
  pc,       \* next step of each thread
  elapsed,  \* ticks that it has waited for a connection
  rows,     \* ages of the suggestions of the last Window ticks, oldest first
  failed,   \* history: ages of the failures that Redis has counted since the
            \* breaker was last reset, oldest first, Cooldown of them and over
            \* left out
  streak    \* history: calls that have failed since one last succeeded, or
            \* the breaker opened

history == <<failed, streak>>
vars == <<breaker, clock, pc, elapsed, rows, history>>

Goto(t, label) ==
  /\ pc' = [pc EXCEPT ![t] = label]
  /\ elapsed' = [elapsed EXCEPT ![t] = 0]

\* The steps of _record_failure.
Recording == {"incr", "expire", "trip", "open", "clear", "local"}

\* From the first query to the end of the session.
Holding == Recording \cup
  {"work", "count", "gate", "calling", "reset", "forget", "record"}

Labels == Holding \cup {"idle", "ask", "refused"}

\* Some connection of t's process is free.
Free(t) ==
  Cardinality({s \in Threads : ProcessOf[s] = ProcessOf[t] /\ pc[s] \in Holding})
    < PoolSize

\* A sequence of ages at the next tick, with ages over max left out.
Aged(ages, max) ==
  LET gone == Cardinality({i \in DOMAIN ages : ages[i] >= max})
  IN  [i \in 1..(Len(ages) - gone) |-> ages[i + gone] + 1]
-----------------------------------------------------------------------------
Init ==
  /\ BreakerInit /\ clock = 0
  /\ pc = [t \in Threads |-> "idle"]
  /\ elapsed = [t \in Threads |-> 0]
  /\ rows = <<>> /\ failed = <<>> /\ streak = 0

Accept(t) ==
  /\ pc[t] \in {"idle", "refused"}
  /\ Goto(t, "ask")
  /\ UNCHANGED <<breaker, clock, rows, history>>

\* The first query of the request takes a connection.
Connect(t) ==
  /\ pc[t] = "ask" /\ Free(t)
  /\ Goto(t, IF t \in Assistants THEN "count" ELSE "work")
  /\ UNCHANGED <<breaker, clock, rows, history>>

\* The pool raises TimeoutError; "refused" marks the core request it hits.
Refuse(t) ==
  /\ pc[t] = "ask" /\ ~Free(t)
  /\ elapsed[t] = PoolTimeout
  /\ Goto(t, IF t \in Assistants THEN "idle" ELSE "refused")
  /\ UNCHANGED <<breaker, clock, rows, history>>

\* A core request does its work; its session is closed.
Work(t) ==
  /\ pc[t] = "work"
  /\ Goto(t, "idle")
  /\ UNCHANGED <<breaker, clock, rows, history>>

\* Mutant: one suggestion over the limit.
LimitReached_OneOver == Len(rows) > Limit

LimitReached == Len(rows) >= Limit

Limited(t) ==
  /\ pc[t] = "count" /\ LimitReached
  /\ Goto(t, "idle")
  /\ UNCHANGED <<breaker, clock, rows, history>>

Count(t) ==
  /\ pc[t] = "count" /\ ~LimitReached
  /\ Goto(t, "gate")
  /\ UNCHANGED <<breaker, clock, rows, history>>

\* The breaker refuses the call.
Reject(t) ==
  /\ pc[t] = "gate" /\ CircuitOpen(ProcessOf[t])
  /\ Goto(t, "idle")
  /\ UNCHANGED <<breaker, clock, rows, history>>

Call(t) ==
  /\ pc[t] = "gate" /\ AssertClosed(ProcessOf[t])
  /\ Goto(t, "calling")
  /\ UNCHANGED <<clock, rows, history>>

\* The call raises, or its answer is no completion.
Fail(t) ==
  /\ pc[t] = "calling"
  /\ Goto(t, "incr")
  /\ streak' = Counted(streak)
  /\ UNCHANGED <<breaker, clock, rows, failed>>

Answer(t) ==
  /\ pc[t] = "calling"
  /\ Goto(t, "reset")
  /\ streak' = 0
  /\ UNCHANGED <<breaker, clock, rows, failed>>
-----------------------------------------------------------------------------
\* _record_failure.  The INCR returns the count that decides on the rest.
CountFailure(t) ==
  /\ pc[t] = "incr" /\ Incr
  /\ Goto(t, IF failures' >= Threshold THEN "trip" ELSE "expire")
  /\ failed' = Append(failed, 0)
  /\ UNCHANGED <<clock, rows, streak>>

ExpireFailures(t) ==
  /\ pc[t] \in {"expire", "trip"} /\ Expire
  /\ Goto(t, IF pc[t] = "trip" THEN "open" ELSE "idle")
  /\ UNCHANGED <<clock, rows, history>>

OpenCircuit(t) ==
  /\ pc[t] = "open" /\ SetOpen
  /\ Goto(t, "clear")
  /\ streak' = 0
  /\ UNCHANGED <<clock, rows, failed>>

ClearFailures(t) ==
  /\ pc[t] = "clear" /\ DeleteFailures
  /\ Goto(t, "idle")
  /\ UNCHANGED <<clock, rows, history>>

\* A command of it fails.
FallBack(t) ==
  /\ pc[t] \in Recording \ {"local"} /\ ~redisUp
  /\ Goto(t, "local")
  /\ UNCHANGED <<breaker, clock, rows, history>>

CountLocally(t) ==
  /\ pc[t] = "local" /\ RecordLocally(ProcessOf[t])
  /\ Goto(t, "idle")
  /\ streak' = IF local'[ProcessOf[t]].ttl > 0 THEN 0 ELSE streak
  /\ UNCHANGED <<clock, rows, failed>>

\* _record_success
Reset(t) ==
  /\ pc[t] = "reset" /\ ResetCircuit(ProcessOf[t])
  /\ Goto(t, "forget")
  /\ UNCHANGED <<clock, rows, history>>

Forget(t) ==
  /\ pc[t] = "forget" /\ ResetDistributedCircuit
  /\ Goto(t, "record")
  /\ failed' = <<>>
  /\ UNCHANGED <<clock, rows, streak>>

\* The suggestion and its audit event are committed; the session is closed.
Record(t) ==
  /\ pc[t] = "record"
  /\ rows' = Append(rows, 0)
  /\ Goto(t, "idle")
  /\ UNCHANGED <<breaker, clock, history>>
-----------------------------------------------------------------------------
\* Time may pass for t.  The wait for a connection ends within PoolTimeout; the
\* call has no such end: llm_timeout_seconds is httpx's limit on each connect,
\* write and read, and an endpoint that keeps sending is waited for.
MayWait(t) ==
  \/ pc[t] \in {"idle", "refused", "calling"}
  \/ pc[t] = "ask" /\ ~Free(t) /\ elapsed[t] < PoolTimeout

Tick ==
  /\ \A t \in Threads : MayWait(t)
  /\ Lapse /\ clock' = 1 - clock
  /\ elapsed' = [t \in Threads |->
       IF pc[t] = "ask" THEN elapsed[t] + 1 ELSE elapsed[t]]
  /\ rows' = Aged(rows, Window)
  /\ failed' = Aged(failed, Cooldown - 1)
  /\ UNCHANGED <<pc, streak>>

\* Redis goes or comes back; the histories start again.
RedisTurns ==
  /\ MayBreak /\ ToggleRedis
  /\ failed' = <<>> /\ streak' = 0
  /\ UNCHANGED <<clock, pc, elapsed, rows>>

\* A process stops and starts: its requests and its local breaker are gone.
Restart(p) ==
  /\ MayBreak /\ ResetCircuit(p)
  /\ pc' = [t \in Threads |-> IF ProcessOf[t] = p THEN "idle" ELSE pc[t]]
  /\ elapsed' = [t \in Threads |-> IF ProcessOf[t] = p THEN 0 ELSE elapsed[t]]
  /\ failed' = <<>> /\ streak' = 0
  /\ UNCHANGED <<clock, rows>>

Serve(t) ==
  \/ Accept(t) \/ Connect(t) \/ Refuse(t) \/ Work(t)
  \/ Limited(t) \/ Count(t) \/ Reject(t) \/ Call(t) \/ Fail(t) \/ Answer(t)
  \/ CountFailure(t) \/ ExpireFailures(t) \/ OpenCircuit(t)
  \/ ClearFailures(t) \/ FallBack(t) \/ CountLocally(t)
  \/ Reset(t) \/ Forget(t) \/ Record(t)

Next ==
  \/ \E t \in Threads : Serve(t)
  \/ Tick \/ RedisTurns
  \/ \E p \in Processes : Restart(p)

Spec == Init /\ [][Next]_vars

\* Time goes on.  Nothing more is assumed: a tick waits for every thread that
\* has something to do.
FairSpec == Spec /\ []<><<Tick>>_vars
-----------------------------------------------------------------------------
TypeOK ==
  /\ BreakerTypeOK /\ clock \in 0..1
  /\ pc \in [Threads -> Labels]
  /\ \A t \in Others : pc[t] \in {"idle", "ask", "work", "refused"}
  /\ elapsed \in [Threads -> Nat]
  /\ rows \in Seq(Nat) /\ failed \in Seq(Nat)
  /\ streak \in 0..Threshold

\* ADR-007, 7: "A per-workspace completed-suggestion rate limit bounds model
\* usage."  The count and the row that it limits are a call apart, so that it
\* may be exceeded, but only by the requests that run at the same time.
SuggestionsBounded == Len(rows) < Limit + Cardinality(Assistants)

\* What makes it inductive: a request that has passed the count is charged
\* before its row is there.
Passed == {"gate", "calling", "reset", "forget", "record"} \cup Recording

PassedAreCharged ==
  Len(rows) + Cardinality({t \in Assistants : pc[t] \in Passed})
    < Limit + Cardinality(Assistants)

\* ADR-007: "Repeated model-endpoint failures are bounded by the circuit
\* breaker": within one cooldown, to the threshold for every thread.  Not to
\* the threshold and the calls under way: a thread that has opened the breaker
\* may DEL the failures only after a success of another has closed it again,
\* and loses those counted in between.
FailuresBounded == Len(failed) <= Threshold * Cardinality(Assistants)

\* ADR-007, 8: "After a configurable number of consecutive gateway failures
\* it rejects further LLM calls": the last of them opens the breaker.
BreakerOpens == streak = Threshold => \E t \in Threads : pc[t] \in Recording

\* README.md: "When disabled, rate-limited, circuit-open or otherwise
\* unavailable, the non-AI product remains operational": calls that hang take
\* no connection that a core request then waits for in vain.
CoreIsServed == \A t \in Others : pc[t] # "refused"

\* However failures, outages of Redis and restarts fall, and however long calls
\* last, the breaker of every process lets a call through again.
BreakerCloses == \A p \in Processes : []<>~CircuitOpen(p)
=============================================================================
