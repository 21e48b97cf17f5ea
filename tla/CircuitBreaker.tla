--------------------------- MODULE CircuitBreaker ---------------------------
(***************************************************************************)
(* The circuit breaker of the LLM gateway: two Redis keys shared by all    *)
(* API processes, "open" and "failures", each with a time to live, and in  *)
(* every process a local breaker for when Redis is unreachable.            *)
(*                                                                         *)
(* Each Redis command is a step of its own.  A lapse of time is a number   *)
(* of ticks; the length of a tick is the unit of the CONSTANTS.            *)
(***************************************************************************)
EXTENDS Naturals

CONSTANTS
  Processes,  \* API processes
  Threshold,  \* llm_circuit_failure_threshold
  Cooldown    \* llm_circuit_cooldown_seconds, in ticks

ASSUME BreakerConstants == Threshold \in Nat \ {0} /\ Cooldown \in Nat \ {0}

VARIABLES
  redisUp,      \* whether the gateways reach Redis
  openTtl,      \* ticks left to the key "open", 0 when it is absent
  failures,     \* the key "failures", 0 when it is absent
  failuresTtl,  \* ticks left to it, 0 when no EXPIRE has been set on it
  local         \* local[p]: _failures and _opened_until of process p

breaker == <<redisUp, openTtl, failures, failuresTtl, local>>

\* Counts are compared with Threshold and nothing else: they stop there.
Counted(n) == IF n < Threshold THEN n + 1 ELSE n

\* ttl is what is left of _opened_until; opened is whether it is set at all,
\* which it stays when that time has passed.
LocalStates == [failures : 0..Threshold, opened : BOOLEAN, ttl : 0..Cooldown]

LocalReset == [failures |-> 0, opened |-> FALSE, ttl |-> 0]

BreakerTypeOK ==
  /\ redisUp \in BOOLEAN
  /\ openTtl \in 0..Cooldown
  /\ failures \in 0..Threshold
  /\ failuresTtl \in 0..Cooldown
  /\ local \in [Processes -> LocalStates]
  /\ failures = 0 => failuresTtl = 0
  /\ \A p \in Processes : local[p].ttl > 0 => local[p].opened

BreakerInit ==
  /\ redisUp = TRUE
  /\ openTtl = 0 /\ failures = 0 /\ failuresTtl = 0
  /\ local = [p \in Processes |-> LocalReset]
-----------------------------------------------------------------------------
\* _assert_circuit_closed raises in process p.
CircuitOpen(p) == IF redisUp THEN openTtl > 0 ELSE local[p].ttl > 0

\* Mutant: only the breaker of the process is asked.
AssertClosed_Local(p) ==
  /\ local[p].ttl = 0
  /\ UNCHANGED breaker

\* It returns; without Redis, a local breaker that has cooled down is reset.
AssertClosed(p) ==
  /\ ~CircuitOpen(p)
  /\ local' = IF ~redisUp /\ local[p].opened
              THEN [local EXCEPT ![p] = LocalReset] ELSE local
  /\ UNCHANGED <<redisUp, openTtl, failures, failuresTtl>>

\* The commands of _record_failure, in their order.
Incr ==
  /\ redisUp
  /\ failures' = Counted(failures)
  /\ UNCHANGED <<redisUp, openTtl, failuresTtl, local>>

\* Mutant: a time to live on a key that is gone.
Expire_Always ==
  /\ redisUp
  /\ failuresTtl' = Cooldown
  /\ UNCHANGED <<redisUp, openTtl, failures, local>>

Expire ==
  /\ redisUp
  /\ failuresTtl' = IF failures > 0 THEN Cooldown ELSE 0
  /\ UNCHANGED <<redisUp, openTtl, failures, local>>

SetOpen ==
  /\ redisUp
  /\ openTtl' = Cooldown
  /\ UNCHANGED <<redisUp, failures, failuresTtl, local>>

DeleteFailures ==
  /\ redisUp
  /\ failures' = 0 /\ failuresTtl' = 0
  /\ UNCHANGED <<redisUp, openTtl, local>>

\* What is left of it when a command fails.
RecordLocally(p) ==
  /\ local' = [local EXCEPT ![p] =
       LET n == Counted(@.failures)
       IN  IF n >= Threshold
           THEN [failures |-> n, opened |-> TRUE, ttl |-> Cooldown]
           ELSE [@ EXCEPT !.failures = n]]
  /\ UNCHANGED <<redisUp, openTtl, failures, failuresTtl>>

\* reset_circuit, for the process.
ResetCircuit(p) ==
  /\ local' = [local EXCEPT ![p] = LocalReset]
  /\ UNCHANGED <<redisUp, openTtl, failures, failuresTtl>>

\* One DEL of both keys, whose failure is ignored.
ResetDistributedCircuit ==
  /\ IF redisUp
     THEN openTtl' = 0 /\ failures' = 0 /\ failuresTtl' = 0
     ELSE UNCHANGED <<openTtl, failures, failuresTtl>>
  /\ UNCHANGED <<redisUp, local>>

\* Redis becomes unreachable, or reachable again; it loses no key.
ToggleRedis ==
  /\ redisUp' = ~redisUp
  /\ UNCHANGED <<openTtl, failures, failuresTtl, local>>
-----------------------------------------------------------------------------
OneLess(n) == IF n = 0 THEN 0 ELSE n - 1

\* Mutant: the key "open" is SET without EX.
Lapse_OpenStays ==
  /\ failures' = IF failuresTtl = 1 THEN 0 ELSE failures
  /\ failuresTtl' = OneLess(failuresTtl)
  /\ local' = [p \in Processes |-> [local[p] EXCEPT !.ttl = OneLess(@)]]
  /\ UNCHANGED <<redisUp, openTtl>>

\* A tick: keys lapse.
Lapse ==
  /\ openTtl' = OneLess(openTtl)
  /\ failures' = IF failuresTtl = 1 THEN 0 ELSE failures
  /\ failuresTtl' = OneLess(failuresTtl)
  /\ local' = [p \in Processes |-> [local[p] EXCEPT !.ttl = OneLess(@)]]
  /\ UNCHANGED redisUp
=============================================================================
