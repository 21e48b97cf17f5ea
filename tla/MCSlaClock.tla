----------------------------- MODULE MCSlaClock -----------------------------
(***************************************************************************)
(* Small instances of SlaClock for TLC: a policy of two or three minutes   *)
(* stands for the minutes of _DEFAULT_SLA.                                 *)
(***************************************************************************)
EXTENDS SlaClock, TLC

Sla(first, resolution, warning) ==
  [minutes |-> [o \in Objectives |-> IF o = "first_response" THEN first ELSE resolution],
   warning |-> warning]

MCDefault  == Sla(2, 3, 1)
MCPolicies == {Sla(1, 2, 0)}
NoPolicies == {}

\* Sessions and uncommitted events are transactions: at most three of them are
\* under way at one time.
ThreeOverlap ==
  Cardinality({e \in Sessions : pc[e] # "idle"}) + Cardinality(sending) <= 3

Symmetry == Permutations(Schedulers) \cup Permutations(Callers) \cup Permutations(Readers)
=============================================================================
