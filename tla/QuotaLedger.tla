---------------------------- MODULE QuotaLedger ----------------------------
(***************************************************************************)
(* What the attachment quota promises: the bytes a workspace stores are    *)
(* charged one attachment at a time, each within the per-file limit, and   *)
(* the total never passes the quota.                                       *)
(***************************************************************************)
EXTENDS Naturals

CONSTANTS MaxBytes, Quota

VARIABLE stored   \* sum of size_bytes of the workspace's attachments

Init == stored \in 0..Quota

Charge(n) ==
  /\ stored + n <= Quota
  /\ stored' = stored + n

Next == \E n \in 1..MaxBytes : Charge(n)

Spec == Init /\ [][Next]_stored
=============================================================================
